---- MODULE Spec2Model ----
(***************************************************************************)
(* Verification model of the analysis engine of seo-geo-analyzer:          *)
(*   - TtlCache                       (analysis/cache.ts)                   *)
(*   - calculateWeightedScore         (analysis/utils.ts)                   *)
(*   - the eight module computations  (analysis/modules.ts)                 *)
(*   - evaluateLinkSample             (analysis/modules.ts)                 *)
(*   - the fetch layer and analyzeSite (analysis/http.ts, analysis/index.ts)*)
(* Each subsystem has its own specification over the shared variables; the *)
(* variables of the other subsystems stay at their initial values.         *)
(***************************************************************************)
EXTENDS Integers, Sequences, FiniteSets, TLC

VARIABLES
    now,        \* Date.now(), in milliseconds
    store,      \* TtlCache.store of the cache under test: key -> entry
    cacheLog,   \* the last two cache operations, newest first (observer)
    aborted,    \* controller.signal.aborted of the run's cancellation scope
    ls,         \* evaluateLinkSample: candidates, queue, results, workers
    run,        \* analyzeSite: position, options, timer, abort reason, outcome
    fetches,    \* the promises of fetchPsi, fetchHtmlDocument, fetchRobotsTxt,
                \* fetchSitemaps and lookupGeo of the run
    caches,     \* psiCache, htmlCache, robotsCache, sitemapCache, geoCache
    ext,        \* options.signal, the externally supplied AbortSignal
    modules,    \* the list of module results (score and weight of each)
    overall,    \* the result of calculateWeightedScore(modules)
    prevOverall,\* the result for the previous order of the modules (observer)
    ctx,        \* the AnalysisContext handed to buildModuleResults
    buildError, \* the error buildModuleResults rejected with, if it did
    client,     \* one request made with a client extended from baseClient
    disk,       \* the records in data/analysis-runs.json
    savers,     \* the runs that save to and read from data/analysis-runs.json
    hashes,     \* two fingerprints and the similarities computed from them
    detectorRun,\* runTechnicalDetectors: the loop over the detectors
    dupCheck,   \* detectDuplicateContent: the text blocks and the result
    robotsInput \* a robots.txt text and the sitemap candidates collected from it

cacheVars == <<store, cacheLog>>
linkVars == <<aborted, ls>>
runVars == <<run, fetches, caches, ext>>
scoreVars == <<modules, overall, prevOverall>>
moduleVars == <<ctx, buildError>>
storeVars == <<disk, savers>>
techVars == <<hashes, detectorRun, dupCheck, robotsInput>>
serviceVars == <<client, storeVars, techVars>>
otherThanCache == <<linkVars, runVars, scoreVars, moduleVars, serviceVars>>
otherThanLinks == <<now, cacheVars, runVars, scoreVars, moduleVars, serviceVars>>
otherThanRun == <<cacheVars, scoreVars, moduleVars, serviceVars>>
otherThanScore == <<now, cacheVars, linkVars, runVars, moduleVars, serviceVars>>
otherThanModules == <<now, cacheVars, linkVars, runVars, prevOverall, serviceVars>>
otherThanClient ==
    <<now, cacheVars, linkVars, runVars, scoreVars, moduleVars, storeVars, techVars>>
otherThanStore ==
    <<now, cacheVars, linkVars, runVars, scoreVars, moduleVars, client, techVars>>
coreVars ==
    <<now, cacheVars, linkVars, runVars, scoreVars, moduleVars, client, storeVars>>
otherThanHashes == <<coreVars, detectorRun, dupCheck, robotsInput>>
otherThanDetectors == <<coreVars, hashes, dupCheck, robotsInput>>
otherThanDuplicates == <<coreVars, hashes, detectorRun, robotsInput>>
otherThanCandidates == <<coreVars, hashes, detectorRun, dupCheck>>
vars ==
    <<now, store, cacheLog, aborted, ls, run, fetches, caches, ext, modules, overall,
      prevOverall, ctx, buildError, client, disk, savers, hashes, detectorRun, dupCheck,
      robotsInput>>

(***************************************************************************)
(* Bounds of the model.                                                    *)
(***************************************************************************)
\* the clock advances in steps of TickStep up to MaxNow
TickStep == 30000
MaxNow == 90000
\* LINK_SAMPLE_LIMIT (50 in constants.ts) and LINK_CONCURRENCY (5 in
\* modules.ts) scaled down; documents have up to LINK_SAMPLE_LIMIT + 2 anchors
LINK_SAMPLE_LIMIT == 3
LINK_CONCURRENCY == 2

\* the longest list of modules given to calculateWeightedScore
MaxModules == 3

\* the most images of a page, besides a page of 20 images
MaxImages == 4

\* the most links of a link sample: the sizes on both sides of the threshold 10
MaxSampled == 10

\* the number of analyzeSite runs that overlap
NumRuns == 2

\* the most lines of a robots.txt whose lines are chosen freely
MaxRobotsLines == 3

(***************************************************************************)
(* Program constants.                                                      *)
(***************************************************************************)
CACHE_TTL_MS == 60000

\* the width of a SimHash fingerprint
HASH_BITS == 64

\* retry.limit of baseClient
RETRY_LIMIT == 1

(***************************************************************************)
(* TtlCache                                                                *)
(***************************************************************************)
Null == "null"
NoEntry == [value |-> Null, expiresAt |-> -1, present |-> FALSE]
CacheEntry(v, e) == [value |-> v, expiresAt |-> e, present |-> TRUE]

Keys == {"k1", "k2"}
Values == {"v1", "v2"}
\* ttlMs arguments tried by the cache specification: set() takes any number
TtlArgs == {-1, 0, TickStep, CACHE_TTL_MS}

EmptyStore == [k \in Keys |-> NoEntry]

\* mutant of TtlGetValue: the expiry test is dropped
TtlGetValue_NoExpiryCheck(s, k, t) ==
    IF ~s[k].present THEN Null ELSE s[k].value

\* get(key): the value returned
TtlGetValue(s, k, t) ==
    IF ~s[k].present THEN Null
    ELSE IF s[k].expiresAt <= t THEN Null
    ELSE s[k].value

\* get(key): the store afterwards (an expired entry is deleted)
TtlGetStore(s, k, t) ==
    IF s[k].present /\ s[k].expiresAt <= t
    THEN [s EXCEPT ![k] = NoEntry]
    ELSE s

\* mutant of TtlSet: the entry expires at once, ttlMs is not added
TtlSet_NoTtl(s, k, v, ttl, t) == [s EXCEPT ![k] = CacheEntry(v, t)]

\* set(key, value, ttlMs)
TtlSet(s, k, v, ttl, t) == [s EXCEPT ![k] = CacheEntry(v, t + ttl)]

\* delete(key)
TtlDelete(s, k) == [s EXCEPT ![k] = NoEntry]

\* clear()
TtlClear(s) == [k \in DOMAIN s |-> NoEntry]

NoOp == [op |-> "none", key |-> Null, value |-> Null, ttl |-> 0, at |-> 0,
         found |-> NoEntry, evicted |-> FALSE]

\* the previous operation is kept without the entry it found
Logged(entry) == <<entry, [cacheLog[1] EXCEPT !.found = NoEntry, !.evicted = FALSE]>>

CacheSet(k, v, ttl) ==
    /\ store' = TtlSet(store, k, v, ttl, now)
    /\ cacheLog' = Logged([op |-> "set", key |-> k, value |-> v, ttl |-> ttl,
                           at |-> now, found |-> store[k], evicted |-> FALSE])
    /\ UNCHANGED <<now, otherThanCache>>

CacheSetExplicit == \E k \in Keys, v \in Values, ttl \in TtlArgs : CacheSet(k, v, ttl)

\* set(key, value) with ttlMs defaulting to defaultTtlMs
CacheSetDefault == \E k \in Keys, v \in Values : CacheSet(k, v, CACHE_TTL_MS)

CacheGet ==
    \E k \in Keys :
        /\ store' = TtlGetStore(store, k, now)
        /\ cacheLog' = Logged([op |-> "get", key |-> k,
                               value |-> TtlGetValue(store, k, now), ttl |-> 0,
                               at |-> now, found |-> store[k],
                               evicted |-> ~TtlGetStore(store, k, now)[k].present])
        /\ UNCHANGED <<now, otherThanCache>>

CacheDelete ==
    \E k \in Keys :
        /\ store' = TtlDelete(store, k)
        /\ cacheLog' = Logged([NoOp EXCEPT !.op = "delete", !.key = k, !.at = now])
        /\ UNCHANGED <<now, otherThanCache>>

CacheClear ==
    /\ store' = TtlClear(store)
    /\ cacheLog' = Logged([NoOp EXCEPT !.op = "clear", !.at = now])
    /\ UNCHANGED <<now, otherThanCache>>

\* time passes between two cache operations
CacheTick ==
    /\ now + TickStep <= MaxNow
    /\ now' = now + TickStep
    /\ cacheLog' = Logged([NoOp EXCEPT !.op = "tick", !.at = now + TickStep])
    /\ UNCHANGED <<store, otherThanCache>>

(***************************************************************************)
(* evaluateLinkSample                                                      *)
(***************************************************************************)
\* URLs are records [scheme, host, path]; a relative href has scheme "".
SiteOrigin == [scheme |-> "https", host |-> "site.test"]
NumPaths == LINK_SAMPLE_LIMIT + 1
MaxDocLen == LINK_SAMPLE_LIMIT + 2

RelativeHref(p) == [scheme |-> "", host |-> "", path |-> p]
AbsoluteHref(o, p) == [scheme |-> o.scheme, host |-> o.host, path |-> p]
EmptyHref == [scheme |-> "", host |-> "", path |-> 0]
MailtoHref == [scheme |-> "mailto", host |-> "", path |-> 1]
InvalidHref == [scheme |-> "https", host |-> "[", path |-> 1]
OtherHref == [scheme |-> "https", host |-> "other.test", path |-> 1]

\* the <a href> elements a document may contain
Anchors ==
    {[href |-> RelativeHref(p), rel |-> Null] : p \in 1..NumPaths}
        \cup {[href |-> AbsoluteHref(SiteOrigin, 1), rel |-> "NoFollow noopener"],
              [href |-> OtherHref, rel |-> Null],
              [href |-> MailtoHref, rel |-> Null],
              [href |-> InvalidHref, rel |-> Null],
              [href |-> EmptyHref, rel |-> Null]}

\* normalizedRel(rel).includes("nofollow")
normalizedRelHasNofollow(rel) == rel \in {"nofollow", "NoFollow noopener"}

shouldSkipHref(href) == href.scheme \in {"javascript", "mailto", "tel"}

\* no URL: the URL constructor threw, or the anchor is discarded
NullUrl == [scheme |-> "", host |-> "", path |-> -1]

\* new URL(href, origin): NullUrl when the URL constructor throws
resolveHref(href, origin) ==
    IF href.host = "[" THEN NullUrl
    ELSE IF href.scheme = "" THEN [scheme |-> origin.scheme, host |-> origin.host, path |-> href.path]
    ELSE href

UrlOrigin(url) == [scheme |-> url.scheme, host |-> url.host]

SeqRange(q) == {q[i] : i \in DOMAIN q}

\* the same-origin URL an anchor contributes, NullUrl when it is discarded
AnchorTarget(a, origin) ==
    IF a.href = EmptyHref \/ shouldSkipHref(a.href) THEN NullUrl
    ELSE LET absolute == resolveHref(a.href, origin) IN
         IF absolute = NullUrl THEN NullUrl
         ELSE IF UrlOrigin(absolute) # origin THEN NullUrl
         ELSE absolute

\* dom("a[href]").each(...): candidates after anchors i.. of the document
RECURSIVE CollectCandidates(_, _, _, _)
CollectCandidates(doc, i, origin, cands) ==
    IF i > Len(doc) THEN cands
    ELSE IF Len(cands) >= LINK_SAMPLE_LIMIT THEN cands
    ELSE LET target == AnchorTarget(doc[i], origin) IN
         IF target = NullUrl \/ target \in {c.url : c \in SeqRange(cands)}
         THEN CollectCandidates(doc, i + 1, origin, cands)
         ELSE CollectCandidates(doc, i + 1, origin,
                                Append(cands, [url |-> target, rel |-> doc[i].rel]))

\* the distinct same-origin link targets of the whole document
DocTargets(doc, origin) ==
    {AnchorTarget(doc[i], origin) : i \in DOMAIN doc} \ {NullUrl}

Min(a, b) == IF a <= b THEN a ELSE b

LsIdle ==
    [phase |-> "idle", candidates |-> <<>>, queue |-> <<>>, results |-> <<>>,
     workers |-> <<>>, found |-> 0, latePulls |-> 0]

\* statusCode: null
NoStatus == -1

\* headCheck: the entry for a response with the given status code
ProbeEntry(next, status) ==
    [url |-> next.url, statusCode |-> status,
     ok |-> (status # NoStatus /\ status # 0 /\ status < 400), rel |-> next.rel]

\* headCheck: the entry when the request throws
ProbeErrorEntry(next) ==
    [url |-> next.url, statusCode |-> NoStatus, ok |-> FALSE, rel |-> next.rel]

NoCandidate == [url |-> NullUrl, rel |-> Null]

\* mutant of WorkerPull: the candidate is read and left at the head of the queue
WorkerPull_NoShift(l, w, isAborted) ==
    IF l.queue = <<>>
    THEN [l EXCEPT !.workers[w] = [st |-> "done", next |-> NoCandidate]]
    ELSE [l EXCEPT !.workers[w] = [st |-> IF isAborted THEN "aborting" ELSE "probing",
                                   next |-> Head(l.queue)]]

\* one pass of a worker's `while (queue.length)` loop up to its await: the next
\* candidate is shifted off the queue and headCheck is called with the signal
\* (a request made with an aborted signal is rejected without being sent)
WorkerPull(l, w, isAborted) ==
    IF l.queue = <<>>
    THEN [l EXCEPT !.workers[w] = [st |-> "done", next |-> NoCandidate]]
    ELSE [l EXCEPT !.queue = Tail(l.queue),
                   !.workers[w] = [st |-> IF isAborted THEN "aborting" ELSE "probing",
                                   next |-> Head(l.queue)]]

RECURSIVE SpawnWorkers(_, _, _)
SpawnWorkers(l, w, isAborted) ==
    IF w > Len(l.workers) THEN l
    ELSE SpawnWorkers(WorkerPull(l, w, isAborted), w + 1, isAborted)

\* mutant of WorkerCount: one worker task per candidate
WorkerCount_PerCandidate(cands) == IF Len(cands) = 0 THEN 1 ELSE Len(cands)

\* the number of worker tasks created
WorkerCount(cands) == Min(LINK_CONCURRENCY, IF Len(cands) = 0 THEN 1 ELSE Len(cands))

\* evaluateLinkSample up to `await Promise.all(workers)`
LinkSampleStart(doc, origin, isAborted) ==
    LET cands == CollectCandidates(doc, 1, origin, <<>>)
        l0 == [phase |-> "running", candidates |-> cands, queue |-> cands,
               results |-> <<>>,
               workers |-> [w \in 1..WorkerCount(cands) |-> [st |-> "new", next |-> NoCandidate]],
               found |-> Cardinality(DocTargets(doc, origin)), latePulls |-> 0]
    IN SpawnWorkers(l0, 1, isAborted)

\* a worker resumes after headCheck returned `entry`: the entry is pushed and
\* the loop goes round (latePulls counts the candidates pulled after the abort)
WorkerResume(l, w, entry, isAborted) ==
    WorkerPull([l EXCEPT !.results = Append(@, entry),
                         !.latePulls = IF isAborted /\ l.queue # <<>> THEN @ + 1 ELSE @],
               w, isAborted)

\* the abort signal destroys the requests in flight
LinkSampleAbort(l) ==
    [l EXCEPT !.workers = [w \in DOMAIN @ |->
        IF @[w].st = "probing" THEN [@[w] EXCEPT !.st = "aborting"] ELSE @[w]]]

AllWorkersDone(l) == \A w \in DOMAIN l.workers : l.workers[w].st = "done"

\* the LinkSampleSummary returned
LinkSampleSummary(l) ==
    [total |-> Len(l.candidates),
     checked |-> l.results,
     broken |-> SelectSeq(l.results, LAMBDA e : ~e.ok),
     nofollow |-> Cardinality({i \in DOMAIN l.candidates :
                                 normalizedRelHasNofollow(l.candidates[i].rel)})]

\* status codes of HEAD responses (NoStatus: the response carries none)
StatusCodes == {200, 399, 400, NoStatus}

\* relative paths are introduced in increasing order (the URLs are interchangeable)
Canonical(doc) ==
    \A i \in DOMAIN doc :
        (doc[i].href.scheme = "" /\ doc[i].href.path > 1) =>
            \E j \in 1..(i - 1) : doc[j].href = RelativeHref(doc[i].href.path - 1)

LinksStart ==
    /\ ls.phase = "idle"
    /\ \E n \in 0..MaxDocLen :
          \E doc \in [1..n -> Anchors] :
              /\ Canonical(doc)
              /\ ls' = LinkSampleStart(doc, SiteOrigin, aborted)
    /\ UNCHANGED <<aborted, otherThanLinks>>

ProbeResponds(status) ==
    \E w \in DOMAIN ls.workers :
        /\ ls.workers[w].st = "probing"
        /\ ls' = WorkerResume(ls, w, ProbeEntry(ls.workers[w].next, status), aborted)
        /\ UNCHANGED <<aborted, otherThanLinks>>

LinksProbeResponds == \E status \in StatusCodes : ProbeResponds(status)

\* network error or the 5 s request timeout
LinksProbeFails ==
    \E w \in DOMAIN ls.workers :
        /\ ls.workers[w].st = "probing"
        /\ ls' = WorkerResume(ls, w, ProbeErrorEntry(ls.workers[w].next), aborted)
        /\ UNCHANGED <<aborted, otherThanLinks>>

\* the rejection of an aborted request reaches headCheck's catch
LinksProbeAborted ==
    \E w \in DOMAIN ls.workers :
        /\ ls.workers[w].st = "aborting"
        /\ \A v \in 1..(w - 1) : ls.workers[v].st # "aborting"
        /\ ls' = WorkerResume(ls, w, ProbeErrorEntry(ls.workers[w].next), aborted)
        /\ UNCHANGED <<aborted, otherThanLinks>>

LinksAbort ==
    /\ ~aborted
    /\ aborted' = TRUE
    /\ ls' = LinkSampleAbort(ls)
    /\ UNCHANGED otherThanLinks

LinksFinish ==
    /\ ls.phase = "running"
    /\ AllWorkersDone(ls)
    /\ ls' = [ls EXCEPT !.phase = "done"]
    /\ UNCHANGED <<aborted, otherThanLinks>>

(***************************************************************************)
(* JavaScript numbers: IEEE-754 binary64 with round-to-nearest-even.       *)
(* A finite number is (-1)^neg * m * 2^e with the natural m kept as a      *)
(* little-endian sequence of limbs; the exponent range is not bounded (no  *)
(* value explored here overflows or is subnormal).                         *)
(***************************************************************************)
LimbBits == 15
Base == 2^LimbBits
MantissaBits == 53

Max(a, b) == IF a >= b THEN a ELSE b

RECURSIVE Strip(_)
Strip(a) == IF a # <<>> /\ a[Len(a)] = 0 THEN Strip(SubSeq(a, 1, Len(a) - 1)) ELSE a

\* the natural n < Base^2
NatOfInt(n) ==
    IF n = 0 THEN <<>> ELSE IF n < Base THEN <<n>> ELSE <<n % Base, n \div Base>>

\* the integer of a natural < Base^2
NatToInt(a) ==
    IF a = <<>> THEN 0 ELSE IF Len(a) = 1 THEN a[1] ELSE a[1] + Base * a[2]

Limb(a, i) == IF i <= Len(a) THEN a[i] ELSE 0

RECURSIVE AddLimbs(_, _, _, _)
AddLimbs(a, b, i, carry) ==
    IF i > Len(a) /\ i > Len(b)
    THEN IF carry = 0 THEN <<>> ELSE <<carry>>
    ELSE LET s == Limb(a, i) + Limb(b, i) + carry
         IN <<s % Base>> \o AddLimbs(a, b, i + 1, s \div Base)

NatAdd(a, b) == AddLimbs(a, b, 1, 0)

RECURSIVE SubLimbs(_, _, _, _)
SubLimbs(a, b, i, borrow) ==
    IF i > Len(a) THEN <<>>
    ELSE LET d == Limb(a, i) - Limb(b, i) - borrow
         IN IF d < 0 THEN <<d + Base>> \o SubLimbs(a, b, i + 1, 1)
            ELSE <<d>> \o SubLimbs(a, b, i + 1, 0)

\* a - b for a >= b
NatSub(a, b) == Strip(SubLimbs(a, b, 1, 0))

RECURSIVE CmpLimbs(_, _, _)
CmpLimbs(a, b, i) ==
    IF i = 0 THEN 0
    ELSE IF a[i] < b[i] THEN -1
    ELSE IF a[i] > b[i] THEN 1
    ELSE CmpLimbs(a, b, i - 1)

\* -1, 0 or 1 as a < b, a = b or a > b
NatCmp(a, b) ==
    IF Len(a) < Len(b) THEN -1
    ELSE IF Len(a) > Len(b) THEN 1
    ELSE CmpLimbs(a, b, Len(a))

RECURSIVE MulLimbs(_, _, _, _)
MulLimbs(a, k, i, carry) ==
    IF i > Len(a)
    THEN IF carry = 0 THEN <<>> ELSE <<carry>>
    ELSE LET p == a[i] * k + carry
         IN <<p % Base>> \o MulLimbs(a, k, i + 1, p \div Base)

\* a * k for 0 <= k < Base
MulSmall(a, k) == IF k = 0 THEN <<>> ELSE MulLimbs(a, k, 1, 0)

\* a * Base^q
ShiftLimbs(a, q) == IF a = <<>> THEN <<>> ELSE [i \in 1..q |-> 0] \o a

RECURSIVE MulAcc(_, _, _)
MulAcc(a, b, i) ==
    IF i > Len(b) THEN <<>>
    ELSE NatAdd(ShiftLimbs(MulSmall(a, b[i]), i - 1), MulAcc(a, b, i + 1))

NatMul(a, b) == MulAcc(a, b, 1)

RECURSIVE DivLimbs(_, _, _, _, _)
DivLimbs(a, k, i, r, q) ==
    IF i = 0 THEN [q |-> Strip(q), r |-> r]
    ELSE LET cur == r * Base + a[i]
         IN DivLimbs(a, k, i - 1, cur % k, <<cur \div k>> \o q)

\* quotient and remainder of a by k, 0 < k < Base
DivSmall(a, k) == DivLimbs(a, k, Len(a), 0, <<>>)

\* a * 2^n
Shl(a, n) == ShiftLimbs(MulSmall(a, 2^(n % LimbBits)), n \div LimbBits)

\* floor(a / 2^n)
Shr(a, n) ==
    IF n \div LimbBits >= Len(a) THEN <<>>
    ELSE DivSmall(SubSeq(a, (n \div LimbBits) + 1, Len(a)), 2^(n % LimbBits)).q

RECURSIVE BitLenInt(_)
BitLenInt(x) == IF x = 0 THEN 0 ELSE 1 + BitLenInt(x \div 2)

\* the number of significant bits of a
BitLen(a) == IF a = <<>> THEN 0 ELSE LimbBits * (Len(a) - 1) + BitLenInt(a[Len(a)])

IsOdd(a) == a # <<>> /\ a[1] % 2 = 1

\* m * 2^shift is the integer M (followed by nonzero bits when sticky)
\* rounded to MantissaBits significant bits, ties to even
Round53(M, sticky) ==
    IF BitLen(M) <= MantissaBits THEN [m |-> M, shift |-> 0]
    ELSE LET d == BitLen(M) - MantissaBits
             q == Shr(M, d)
             rem == NatSub(M, Shl(q, d))
             cmp == NatCmp(rem, Shl(<<1>>, d - 1))
             up == cmp > 0 \/ (cmp = 0 /\ (sticky \/ IsOdd(q)))
         IN [m |-> IF up THEN NatAdd(q, <<1>>) ELSE q, shift |-> d]

NaN == [kind |-> "nan", neg |-> FALSE, m |-> <<>>, e |-> 0]
Infinity(neg) == [kind |-> "inf", neg |-> neg, m |-> <<>>, e |-> 0]
Finite(neg, m, e) == [kind |-> "fin", neg |-> neg, m |-> m, e |-> e]
Zero(neg) == Finite(neg, <<>>, 0)

\* the number of an integer literal, |n| < Base^2
FromInt(n) == Finite(n < 0, NatOfInt(IF n < 0 THEN -n ELSE n), 0)

IsZero(x) == x.kind = "fin" /\ x.m = <<>>

RoundToDouble(neg, M, e, sticky) ==
    LET r == Round53(M, sticky) IN Finite(neg, r.m, e + r.shift)

\* the real number z as a number
Rounded(z) == RoundToDouble(z.neg, z.m, z.e, FALSE)

\* the real product and the real sum of two finite numbers
ExactProduct(x, y) == Finite(x.neg # y.neg, NatMul(x.m, y.m), x.e + y.e)

ExactSum(x, y) ==
    IF IsZero(x) THEN y
    ELSE IF IsZero(y) THEN x
    ELSE LET e == IF x.e <= y.e THEN x.e ELSE y.e
             a == Shl(x.m, x.e - e)
             b == Shl(y.m, y.e - e)
             cmp == NatCmp(a, b)
         IN IF x.neg = y.neg THEN Finite(x.neg, NatAdd(a, b), e)
            ELSE IF cmp = 0 THEN Zero(FALSE)
            ELSE IF cmp > 0 THEN Finite(x.neg, NatSub(a, b), e)
            ELSE Finite(y.neg, NatSub(b, a), e)

\* x * y
FMul(x, y) ==
    IF x.kind = "nan" \/ y.kind = "nan" THEN NaN
    ELSE IF x.kind = "inf" \/ y.kind = "inf"
    THEN IF IsZero(x) \/ IsZero(y) THEN NaN ELSE Infinity(x.neg # y.neg)
    ELSE IF IsZero(x) \/ IsZero(y) THEN Zero(x.neg # y.neg)
    ELSE Rounded(ExactProduct(x, y))

\* x + y
FAdd(x, y) ==
    IF x.kind = "nan" \/ y.kind = "nan" THEN NaN
    ELSE IF x.kind = "inf"
    THEN IF y.kind = "inf" /\ x.neg # y.neg THEN NaN ELSE x
    ELSE IF y.kind = "inf" THEN y
    ELSE IF IsZero(x) THEN (IF IsZero(y) THEN Zero(x.neg /\ y.neg) ELSE y)
    ELSE IF IsZero(y) THEN x
    ELSE Rounded(ExactSum(x, y))

\* x / y, for a divisor of at most LimbBits significant bits
FDiv(x, y) ==
    IF x.kind = "nan" \/ y.kind = "nan" THEN NaN
    ELSE IF x.kind = "inf"
    THEN IF y.kind = "inf" THEN NaN ELSE Infinity(x.neg # y.neg)
    ELSE IF y.kind = "inf" THEN Zero(x.neg # y.neg)
    ELSE IF IsZero(y) THEN (IF IsZero(x) THEN NaN ELSE Infinity(x.neg # y.neg))
    ELSE IF IsZero(x) THEN Zero(x.neg # y.neg)
    ELSE LET s == Max(0, MantissaBits + 2 + BitLen(y.m) - BitLen(x.m))
             d == DivSmall(Shl(x.m, s), y.m[1])
         IN RoundToDouble(x.neg # y.neg, d.q, x.e - y.e - s, d.r # 0)

\* -1, 0 or 1 as x < y, x = y or x > y, for numbers that are not NaN
FCmp(x, y) ==
    LET MagCmp == IF x.kind = "inf" THEN (IF y.kind = "inf" THEN 0 ELSE 1)
                  ELSE IF y.kind = "inf" THEN -1
                  ELSE IF IsZero(x) THEN (IF IsZero(y) THEN 0 ELSE -1)
                  ELSE IF IsZero(y) THEN 1
                  ELSE LET e == IF x.e <= y.e THEN x.e ELSE y.e
                       IN NatCmp(Shl(x.m, x.e - e), Shl(y.m, y.e - e))
    IN IF IsZero(x) /\ IsZero(y) THEN 0
       ELSE IF x.neg /\ ~y.neg THEN -1
       ELSE IF ~x.neg /\ y.neg THEN 1
       ELSE IF x.neg THEN -MagCmp ELSE MagCmp

\* x === y
FEq(x, y) == x.kind # "nan" /\ y.kind # "nan" /\ FCmp(x, y) = 0

\* x.toFixed(2) for 0 <= x <= 10, as the integer n of the string n/100: the n
\* for which n/100 - x is closest to zero, the larger n if there are two
ToFixed2(x) ==
    IF IsZero(x) THEN 0
    ELSE IF x.e >= 0 THEN NatToInt(Shl(MulSmall(x.m, 100), x.e))
    ELSE NatToInt(Shr(NatAdd(MulSmall(x.m, 200), Shl(<<1>>, -x.e)), 1 - x.e))

\* Number("n/100"): the number nearest to the decimal
FromHundredths(n) == FDiv(FromInt(n), FromInt(100))

(***************************************************************************)
(* calculateWeightedScore                                                  *)
(***************************************************************************)
\* no number computed yet
NoNumber == [kind |-> "none", neg |-> FALSE, m |-> <<>>, e |-> 0]

\* Math.min(x, y) and Math.max(x, y) for numbers that are not NaN
FMin(x, y) == IF FCmp(x, y) <= 0 THEN x ELSE y
FMax(x, y) == IF FCmp(x, y) >= 0 THEN x ELSE y

\* mutant of clampScore: no upper limit
clampScore_NoMax(value) ==
    IF value.kind = "nan" THEN FromInt(0) ELSE FMax(FromInt(0), value)

\* clampScore(value) with the default limits 0 and 10
clampScore(value) ==
    IF value.kind = "nan" THEN FromInt(0)
    ELSE FMax(FromInt(0), FMin(FromInt(10), value))

\* roundScore(value) with the default precision 2
roundScore(value) == FromHundredths(ToFixed2(clampScore(value)))

\* the accumulator of the reduce after the modules from position i on
RECURSIVE ReduceTotals(_, _, _)
ReduceTotals(mods, i, acc) ==
    IF i > Len(mods) THEN acc
    ELSE ReduceTotals(mods, i + 1,
                      [weight |-> FAdd(acc.weight, mods[i].weight),
                       sum |-> FAdd(acc.sum, FMul(mods[i].score, mods[i].weight))])

calculateWeightedScore(mods) ==
    IF Len(mods) = 0 THEN FromInt(0)
    ELSE LET totals == ReduceTotals(mods, 1, [weight |-> FromInt(0), sum |-> FromInt(0)])
         IN IF totals.weight.kind # "nan" /\ FEq(totals.weight, FromInt(0)) THEN FromInt(0)
            ELSE roundScore(FDiv(totals.sum, totals.weight))

\* module scores: two-decimal values inside and outside [0, 10], and NaN
ScoreInputs ==
    {FromHundredths(1), FromHundredths(2), FromInt(15), FromInt(-5), NaN}

\* module weights
WeightInputs == {FromInt(0), FromInt(1), FromInt(2)}

ModuleInputs == [score : ScoreInputs, weight : WeightInputs]

\* the list with positions i and j exchanged
Swap(mods, i, j) == [mods EXCEPT ![i] = mods[j], ![j] = mods[i]]

(***************************************************************************)
(* The eight module computations and buildModuleResults                    *)
(***************************************************************************)
\* -x and x - y
FNeg(x) == IF x.kind = "nan" THEN x ELSE [x EXCEPT !.neg = ~x.neg]
FSub(x, y) == FAdd(x, FNeg(y))

\* Math.round(x) for a finite x >= 0: the integer floor(x + 1/2)
MathRound(x) ==
    IF IsZero(x) \/ x.e >= 0 THEN x
    ELSE Finite(FALSE, Shr(NatAdd(MulSmall(x.m, 2), Shl(<<1>>, -x.e)), 1 - x.e), 0)

\* the value is truthy: neither 0, -0 nor NaN
Truthy(x) == x.kind # "nan" /\ ~IsZero(x)

\* s.toLowerCase() and s.toUpperCase() on the strings of the contexts
ToLowerCase(s) ==
    CASE s = "US" -> "us"
      [] s = "DE" -> "de"
      [] s = "en-US" -> "en-us"
      [] s = "NOINDEX" -> "noindex"
      [] s = "NoSniff" -> "nosniff"
      [] s = "DENY" -> "deny"
      [] s = "ALLOW-FROM https://a.example" -> "allow-from https://a.example"
      [] s = "Frame-Ancestors *" -> "frame-ancestors *"
      [] s = "Text/HTML; Charset=UTF-8" -> "text/html; charset=utf-8"
      [] OTHER -> s

\* String.prototype.trim: the text without the white space around it
Trim(s) ==
    CASE s = "noindex " -> "noindex"
      [] s = " https" -> "https"
      [] s = " http" -> "http"
      [] s = " /sitemap_index.xml" -> "/sitemap_index.xml"
      [] s = " " -> ""
      [] OTHER -> s

ToUpperCase(s) ==
    CASE s = "us" -> "US"
      [] s = "de" -> "DE"
      [] s = "com" -> "COM"
      [] OTHER -> s

\* s.length on the hostname labels of the contexts
LabelLength(s) == IF s \in {"us", "de"} THEN 2 ELSE 3

\* s.includes(part) on the lower-case strings of the contexts
Includes(s, part) ==
    \/ s = part
    \/ <<s, part>> \in {<<"en-us", "us">>, <<"de-de", "de">>, <<"noindex ", "noindex">>,
                        <<"allow-from https://a.example", "allow">>,
                        <<"frame-ancestors 'none'", "frame-ancestors">>,
                        <<"frame-ancestors *", "frame-ancestors">>,
                        <<"frame-ancestors *", "frame-ancestors *">>,
                        <<"text/html", "text/html">>,
                        <<"text/html; charset=utf-8", "text/html">>,
                        <<"text/html; charset=utf-8", "charset=">>,
                        <<"application/json; charset=utf-8", "charset=">>}

\* the entries of value.split(/[,;]\s*/), lower-cased, the empty ones dropped;
\* a header or attribute value is kept as the list of its entries
Directives(value) == [i \in DOMAIN value |-> ToLowerCase(value[i])]

\* value.toLowerCase().includes("noindex") on the joined entries
MentionsNoindex(value) ==
    \E i \in DOMAIN value : Includes(ToLowerCase(value[i]), "noindex")

\* computePerformance(ctx).score
computePerformance(c) ==
    LET perfScore == IF c.perfScore.kind # "none" THEN c.perfScore ELSE FromInt(0)
    IN roundScore(FMul(IF Truthy(perfScore) THEN perfScore ELSE FromInt(0), FromInt(10)))

importantSchemas ==
    {"WebSite", "WebPage", "Organization", "Product", "BreadcrumbList", "FAQPage",
     "Article"}

\* computeSchema(ctx).score; a validator that throws leaves schemas empty, failed 0
computeSchema(c) ==
    LET schemas == IF c.validator.threw THEN {} ELSE c.validator.schemas
        failed == IF c.validator.threw THEN 0 ELSE c.validator.failed
        importantCount == Cardinality(importantSchemas \cap schemas)
        score == (IF schemas # {} THEN 4 ELSE 0) + Min(4, importantCount)
                 + (IF failed = 0 THEN 2 ELSE 0)
    IN clampScore(FromInt(score))

\* the points of the five rules of computeGeo before the clamp
GeoPoints(c) ==
    LET hasHreflang == Len(c.hreflangs) > 0
        hreflangForTarget ==
            /\ c.targetCountry # Null
            /\ \E i \in DOMAIN c.hreflangs :
                  /\ c.hreflangs[i] # ""
                  /\ Includes(ToLowerCase(c.hreflangs[i]), ToLowerCase(c.targetCountry))
        ccTld == IF LabelLength(c.tld) = 2 THEN ToUpperCase(c.tld) ELSE Null
        ccTldMatches == ccTld # Null /\ c.targetCountry # Null /\ ccTld = c.targetCountry
        serverMatches ==
            /\ c.targetCountry # Null
            /\ c.geoCountry # Null
            /\ ToUpperCase(c.geoCountry) = c.targetCountry
        sitemapHasHreflang == c.sitemap.hasHreflang
    IN (IF hasHreflang THEN 4 ELSE 0) + (IF hreflangForTarget THEN 1 ELSE 0)
       + (IF ccTldMatches THEN 2 ELSE 0) + (IF sitemapHasHreflang THEN 2 ELSE 0)
       + (IF serverMatches THEN 2 ELSE 0)

\* mutant of computeGeo: the points are returned without the clamp
computeGeo_NoClamp(c) == FromInt(GeoPoints(c))

\* computeGeo(ctx).score
computeGeo(c) == clampScore(FromInt(GeoPoints(c)))

\* ctx.sitemap?.fetched?.some((entry) => entry.ok)
SitemapReachable(c) == \E i \in DOMAIN c.sitemap.fetched : c.sitemap.fetched[i].ok

\* computeSeoBasics(ctx).score
computeSeoBasics(c) ==
    LET all == Directives(c.robotsMeta) \o Directives(c.xRobotsTag)
        indexable == ~\E i \in DOMAIN all : all[i] \in {"noindex", "none"}
        perCheck == 2
        score == (IF c.titleLength >= 30 /\ c.titleLength <= 60 THEN perCheck ELSE 0)
                 + (IF c.metaDescriptionLength >= 70 /\ c.metaDescriptionLength <= 160
                    THEN perCheck ELSE 0)
                 + (IF c.canonicals = 1 THEN perCheck ELSE 0)
                 + (IF indexable THEN perCheck ELSE 0)
                 + (IF SitemapReachable(c) THEN perCheck ELSE 0)
    IN clampScore(FromInt(score))

\* computeSocial(ctx).score; the HEAD request for the image is made only for an
\* og:image that resolves against the page URL
computeSocial(c) ==
    LET present == Cardinality({f \in {"ogTitle", "ogDescription", "ogImage"} : c[f]})
        base == IF present = 3 THEN FromInt(7)
                ELSE clampScore(FMul(FDiv(FromInt(present), FromInt(3)), FromInt(7)))
        card == IF c.twitterCard THEN FAdd(base, FromInt(1)) ELSE base
        imageOk == /\ c.ogImage
                   /\ c.ogImageResolves
                   /\ ~c.ogImageHead.threw
                   /\ c.ogImageHead.statusCode # 0
                   /\ c.ogImageHead.statusCode < 400
    IN clampScore(IF imageOk THEN FAdd(card, FromInt(2)) ELSE card)

\* computeSecurity(ctx).score; an absent header is the empty string
computeSecurity(c) ==
    IF ~c.https THEN FromInt(0)
    ELSE LET xfo == ToLowerCase(c.xfo)
             csp == ToLowerCase(c.csp)
             contentType == ToLowerCase(c.contentType)
             frameProtected ==
                 \/ c.xfo # "" /\ ~Includes(xfo, "allow")
                 \/ /\ c.csp # ""
                    /\ Includes(csp, "frame-ancestors")
                    /\ ~Includes(csp, "frame-ancestors *")
             score == (IF c.hsts # "" THEN 2 ELSE 0)
                      + (IF Includes(ToLowerCase(c.xcto), "nosniff") THEN 2 ELSE 0)
                      + (IF frameProtected THEN 2 ELSE 0)
                      + (IF Includes(contentType, "text/html")
                            /\ Includes(contentType, "charset=") THEN 2 ELSE 0)
                      + (IF c.mixedContent = 0 THEN 2 ELSE 0)
         IN clampScore(FromInt(score))

\* computeAccessibility(ctx).score
computeAccessibility(c) ==
    LET altRatio == IF c.images # 0 THEN FDiv(FromInt(c.imagesWithAlt), FromInt(c.images))
                    ELSE FromInt(1)
        alt == clampScore(MathRound(FMul(altRatio, FromInt(6))))
        covered == IF FCmp(altRatio, FromHundredths(95)) >= 0
                   THEN FAdd(alt, FromInt(2)) ELSE alt
        marked == IF c.landmarks >= 2 THEN FAdd(covered, FromInt(2)) ELSE covered
    IN clampScore(marked)

\* computeLinks(ctx).score
computeLinks(c) ==
    LET brokenCount == c.linkSample.broken
        totalChecked == c.linkSample.total
        nofollowRatio == IF totalChecked # 0
                         THEN FDiv(FromInt(c.linkSample.nofollow), FromInt(totalChecked))
                         ELSE FromInt(0)
        brokenRatio == IF totalChecked # 0
                       THEN FDiv(FromInt(brokenCount), FromInt(totalChecked))
                       ELSE FromInt(0)
        s0 == FromInt(10)
        s1 == IF brokenCount # 0
              THEN FSub(s0, FMin(FromInt(6), FMul(brokenRatio, FromInt(10)))) ELSE s0
        s2 == IF FCmp(nofollowRatio, FDiv(FromInt(2), FromInt(10))) > 0
              THEN FSub(s1, FMin(FromInt(3), FMul(nofollowRatio, FromInt(5)))) ELSE s1
        s3 == IF totalChecked < 10 THEN FSub(s2, FromInt(1)) ELSE s2
        indexable == IF MentionsNoindex(c.robotsMeta) THEN FALSE
                     ELSE ~MentionsNoindex(c.xRobotsTag)
        s4 == IF ~indexable THEN FMin(s3, FromInt(4)) ELSE s3
    IN clampScore(s4)

\* mutant of MODULE_DEFINITIONS: the links module weighs as much as its neighbours
MODULE_DEFINITIONS_LinksTen ==
    <<[key |-> "performance", weight |-> 15], [key |-> "schema", weight |-> 15],
      [key |-> "geo", weight |-> 15], [key |-> "seo_basics", weight |-> 20],
      [key |-> "social", weight |-> 10], [key |-> "security", weight |-> 10],
      [key |-> "accessibility", weight |-> 10], [key |-> "links", weight |-> 10]>>

\* key and weight of each module definition, in order
MODULE_DEFINITIONS ==
    <<[key |-> "performance", weight |-> 15], [key |-> "schema", weight |-> 15],
      [key |-> "geo", weight |-> 15], [key |-> "seo_basics", weight |-> 20],
      [key |-> "social", weight |-> 10], [key |-> "security", weight |-> 10],
      [key |-> "accessibility", weight |-> 10], [key |-> "links", weight |-> 5]>>

\* COMPUTERS[key](ctx).score
COMPUTERS(key, c) ==
    CASE key = "performance" -> computePerformance(c)
      [] key = "schema" -> computeSchema(c)
      [] key = "geo" -> computeGeo(c)
      [] key = "seo_basics" -> computeSeoBasics(c)
      [] key = "social" -> computeSocial(c)
      [] key = "security" -> computeSecurity(c)
      [] key = "accessibility" -> computeAccessibility(c)
      [] key = "links" -> computeLinks(c)

\* createIssueTracker() after the increments counted by critical and warning
Issues(critical, warning) == [critical |-> critical, warning |-> warning, info |-> 0]

\* the number of the conditions that hold
Count(conditions) == Len(SelectSeq(conditions, LAMBDA b : b))

\* `audit && audit > limit` for the numericValue of a PageSpeed audit
AuditExceeds(audit, limit) ==
    audit.type # "absent" /\ audit.value # 0 /\ audit.value > limit

\* computePerformance(ctx) throws: cls?.toFixed(2) on a cumulative-layout-shift
\* value that is present and not a number is a TypeError
computePerformanceThrows(c) == c.audits.cls.type = "string"

\* computePerformance(ctx).issues; the layout shift is kept in thousandths
computePerformanceIssues(c) ==
    Issues(Count(<<AuditExceeds(c.audits.inp, 500)>>),
           Count(<<AuditExceeds(c.audits.lcp, 4000), AuditExceeds(c.audits.cls, 250),
                   AuditExceeds(c.audits.tbt, 600)>>))

\* computeSchema(ctx).issues
computeSchemaIssues(c) ==
    IF c.validator.threw THEN Issues(0, 1)
    ELSE Issues(0, Count(<<c.validator.failed > 0, c.validator.schemas = {}>>))

\* computeGeo(ctx).issues
computeGeoIssues(c) == Issues(0, Count(<<Len(c.hreflangs) = 0>>))

\* computeSeoBasics(ctx).issues
\* the recommendations of computeSeoBasics: one pushed in the else branch of
\* each of the five checks
computeSeoBasicsRecommendations(c) ==
    LET all == Directives(c.robotsMeta) \o Directives(c.xRobotsTag)
        indexable == ~\E i \in DOMAIN all : all[i] \in {"noindex", "none"}
    IN Count(<<~(c.titleLength >= 30 /\ c.titleLength <= 60),
               ~(c.metaDescriptionLength >= 70 /\ c.metaDescriptionLength <= 160),
               c.canonicals # 1,
               ~indexable,
               ~SitemapReachable(c)>>)

computeSeoBasicsIssues(c) ==
    LET all == Directives(c.robotsMeta) \o Directives(c.xRobotsTag)
        indexable == ~\E i \in DOMAIN all : all[i] \in {"noindex", "none"}
    IN Issues(Count(<<~indexable>>),
              Count(<<~(c.titleLength >= 30 /\ c.titleLength <= 60), c.canonicals # 1>>))

\* computeSocial(ctx).issues
computeSocialIssues(c) == Issues(0, Count(<<~c.ogTitle \/ ~c.ogDescription>>))

\* mutant of computeSecurityIssues: the missing scheme is counted as a warning
computeSecurityIssues_Warning(c) ==
    IF ~c.https THEN Issues(0, 1) ELSE Issues(0, Count(<<c.mixedContent # 0>>))

\* computeSecurity(ctx).issues
computeSecurityIssues(c) ==
    IF ~c.https THEN Issues(1, 0) ELSE Issues(0, Count(<<c.mixedContent # 0>>))

\* computeAccessibility(ctx).issues
computeAccessibilityIssues(c) ==
    LET altRatio == IF c.images # 0 THEN FDiv(FromInt(c.imagesWithAlt), FromInt(c.images))
                    ELSE FromInt(1)
    IN Issues(0, Count(<<FCmp(altRatio, FromHundredths(95)) < 0>>))

\* computeLinks(ctx).issues
computeLinksIssues(c) ==
    LET indexable == IF MentionsNoindex(c.robotsMeta) THEN FALSE
                     ELSE ~MentionsNoindex(c.xRobotsTag)
    IN Issues(Count(<<~indexable>>), Count(<<c.linkSample.broken # 0>>))

\* COMPUTERS[key](ctx).issues
ComputedIssues(key, c) ==
    CASE key = "performance" -> computePerformanceIssues(c)
      [] key = "schema" -> computeSchemaIssues(c)
      [] key = "geo" -> computeGeoIssues(c)
      [] key = "seo_basics" -> computeSeoBasicsIssues(c)
      [] key = "social" -> computeSocialIssues(c)
      [] key = "security" -> computeSecurityIssues(c)
      [] key = "accessibility" -> computeAccessibilityIssues(c)
      [] key = "links" -> computeLinksIssues(c)

\* COMPUTERS[key](ctx) throws
ComputerThrows(key, c) == key = "performance" /\ computePerformanceThrows(c)

\* the numericValue of an audit of the PageSpeed payload: absent, a number or,
\* in a payload that does not follow the schema, a string
NoAudit == [type |-> "absent", value |-> 0]
NumberAudit(n) == [type |-> "number", value |-> n]
StringAudit(n) == [type |-> "string", value |-> n]

\* the context of an empty page served over http: every rule fails
EmptyContext ==
    [perfScore |-> NoNumber,
     audits |-> [lcp |-> NoAudit, cls |-> NoAudit, inp |-> NoAudit, tbt |-> NoAudit],
     validator |-> [threw |-> FALSE, schemas |-> {}, failed |-> 0],
     hreflangs |-> <<>>, targetCountry |-> Null, tld |-> "com", geoCountry |-> Null,
     sitemap |-> [fetched |-> <<[ok |-> FALSE]>>, hasHreflang |-> FALSE],
     titleLength |-> 0, metaDescriptionLength |-> 0, canonicals |-> 0,
     robotsMeta |-> <<>>, xRobotsTag |-> <<>>,
     ogTitle |-> FALSE, ogDescription |-> FALSE, ogImage |-> FALSE,
     twitterCard |-> FALSE, ogImageResolves |-> FALSE,
     ogImageHead |-> [threw |-> TRUE, statusCode |-> 0],
     https |-> FALSE, hsts |-> "", xcto |-> "", xfo |-> "", csp |-> "",
     contentType |-> "", mixedContent |-> 0,
     images |-> 0, imagesWithAlt |-> 0, landmarks |-> 0,
     linkSample |-> [total |-> 0, broken |-> 0, nofollow |-> 0]]

\* the context of a page that satisfies every rule of every module
FullContext ==
    [perfScore |-> FromInt(1),
     audits |-> [lcp |-> NumberAudit(1200), cls |-> NumberAudit(20),
                 inp |-> NumberAudit(150), tbt |-> NumberAudit(100)],
     validator |-> [threw |-> FALSE, schemas |-> importantSchemas, failed |-> 0],
     hreflangs |-> <<"x-default", "en-US">>, targetCountry |-> "US", tld |-> "us",
     geoCountry |-> "US",
     sitemap |-> [fetched |-> <<[ok |-> FALSE], [ok |-> TRUE]>>, hasHreflang |-> TRUE],
     titleLength |-> 30, metaDescriptionLength |-> 160, canonicals |-> 1,
     robotsMeta |-> <<"index", "follow">>, xRobotsTag |-> <<>>,
     ogTitle |-> TRUE, ogDescription |-> TRUE, ogImage |-> TRUE,
     twitterCard |-> TRUE, ogImageResolves |-> TRUE,
     ogImageHead |-> [threw |-> FALSE, statusCode |-> 200],
     https |-> TRUE, hsts |-> "max-age=31536000", xcto |-> "nosniff", xfo |-> "DENY",
     csp |-> "frame-ancestors 'none'", contentType |-> "text/html; charset=utf-8",
     mixedContent |-> 0,
     images |-> 1, imagesWithAlt |-> 1, landmarks |-> 2,
     linkSample |-> [total |-> MaxSampled, broken |-> 0, nofollow |-> 0]]

\* the inputs of each module computation
PerfScores ==
    {FromHundredths(n) : n \in 0..100}
        \cup {NoNumber, NaN, FromInt(2), FromInt(-1), Infinity(FALSE), Infinity(TRUE)}
ValidatorOutcomes ==
    {[threw |-> TRUE, schemas |-> {}, failed |-> 0]}
        \cup [threw : {FALSE}, schemas : SUBSET (importantSchemas \cup {"Thing"}),
              failed : 0..1]
HreflangLists == {<<>>, <<"">>, <<"de-de">>, <<"en-US">>, <<"x-default", "en-US">>}
TargetCountries == {Null, "US", "DE"}
TopLevelDomains == {"com", "us", "de"}
GeoCountries == {Null, "US", "us", "DE"}
SitemapSummaries ==
    {[fetched |-> <<[ok |-> FALSE]>>, hasHreflang |-> FALSE],
     [fetched |-> <<[ok |-> TRUE]>>, hasHreflang |-> FALSE],
     [fetched |-> <<[ok |-> FALSE], [ok |-> TRUE]>>, hasHreflang |-> TRUE]}
TitleLengths == {0, 14, 29, 30, 60, 61}
MetaDescriptionLengths == {0, 69, 70, 160, 161}
RobotsMetaValues ==
    {<<>>, <<"index", "follow">>, <<"NOINDEX">>, <<"noindex ", "nofollow">>, <<"none">>}
XRobotsTagValues == {<<>>, <<"noindex">>, <<"nofollow">>}
HeadOutcomes ==
    {[threw |-> TRUE, statusCode |-> 0], [threw |-> FALSE, statusCode |-> 200],
     [threw |-> FALSE, statusCode |-> 404]}
HstsValues == {"", "max-age=31536000"}
XctoValues == {"", "NoSniff", "sniff"}
XfoValues == {"", "DENY", "ALLOW-FROM https://a.example"}
CspValues == {"", "default-src 'self'", "frame-ancestors 'none'", "Frame-Ancestors *"}
ContentTypes ==
    {"", "text/html", "Text/HTML; Charset=UTF-8", "application/json; charset=utf-8"}
ImageCounts ==
    UNION {[images : {i}, imagesWithAlt : 0..i] : i \in 0..MaxImages \cup {20}}
LinkSamples ==
    UNION {[total : {t}, broken : 0..t, nofollow : 0..t] : t \in 0..MaxSampled}

AuditValues ==
    [lcp : {NoAudit, NumberAudit(4000), NumberAudit(4001)},
     cls : {NoAudit, NumberAudit(250), NumberAudit(251), StringAudit(251)},
     inp : {NoAudit, NumberAudit(501)},
     tbt : {NoAudit, NumberAudit(601)}]

\* the contexts that differ from the context b in the inputs of one module
PerformanceContexts(b) ==
    {[b EXCEPT !.perfScore = p] : p \in PerfScores}
        \cup {[b EXCEPT !.audits = a] : a \in AuditValues}
SchemaContexts(b) == {[b EXCEPT !.validator = v] : v \in ValidatorOutcomes}
GeoContexts(b) ==
    {[b EXCEPT !.hreflangs = h, !.targetCountry = t, !.tld = d, !.geoCountry = g,
               !.sitemap = s] :
        h \in HreflangLists, t \in TargetCountries, d \in TopLevelDomains,
        g \in GeoCountries, s \in SitemapSummaries}
SeoBasicsContexts(b) ==
    {[b EXCEPT !.titleLength = t, !.metaDescriptionLength = d, !.canonicals = k,
               !.robotsMeta = r, !.xRobotsTag = x, !.sitemap = s] :
        t \in TitleLengths, d \in MetaDescriptionLengths, k \in 0..2,
        r \in RobotsMetaValues, x \in XRobotsTagValues,
        s \in {z \in SitemapSummaries : ~z.hasHreflang}}
SocialContexts(b) ==
    {[b EXCEPT !.ogTitle = t, !.ogDescription = d, !.ogImage = i, !.twitterCard = k,
               !.ogImageResolves = r, !.ogImageHead = h] :
        t \in BOOLEAN, d \in BOOLEAN, i \in BOOLEAN, k \in BOOLEAN, r \in BOOLEAN,
        h \in HeadOutcomes}
SecurityContexts(b) ==
    {[b EXCEPT !.https = s, !.hsts = h, !.xcto = x, !.xfo = f, !.csp = p,
               !.contentType = t, !.mixedContent = m] :
        s \in BOOLEAN, h \in HstsValues, x \in XctoValues, f \in XfoValues,
        p \in CspValues, t \in ContentTypes, m \in 0..1}
AccessibilityContexts(b) ==
    {[b EXCEPT !.images = i.images, !.imagesWithAlt = i.imagesWithAlt,
               !.landmarks = l] :
        i \in ImageCounts, l \in 0..2}
LinksContexts(b) ==
    {[b EXCEPT !.linkSample = l, !.robotsMeta = r, !.xRobotsTag = x] :
        l \in LinkSamples, r \in {<<>>, <<"noindex ", "nofollow">>},
        x \in {<<>>, <<"noindex">>}}

\* a context is well formed: the images with alt text are among the images, the
\* broken and the nofollow links among the sampled links
WellFormed(c) ==
    /\ c.imagesWithAlt <= c.images
    /\ c.linkSample.broken <= c.linkSample.total
    /\ c.linkSample.nofollow <= c.linkSample.total

\* c is one of the contexts: each module computation reads only its own
\* inputs, so its inputs range over their whole domain around each of the two
\* pages
IsContext(c) ==
    /\ \E b \in {EmptyContext, FullContext} :
          \/ c \in PerformanceContexts(b)
          \/ c \in SchemaContexts(b)
          \/ c \in GeoContexts(b)
          \/ c \in SeoBasicsContexts(b)
          \/ c \in SocialContexts(b)
          \/ c \in SecurityContexts(b)
          \/ c \in AccessibilityContexts(b)
          \/ c \in LinksContexts(b)
    /\ WellFormed(c)

\* the other subsystems are not running
LinksIdle == aborted = FALSE /\ ls = LsIdle
ScoreIdle == modules = <<>> /\ overall = NoNumber /\ prevOverall = NoNumber
ModulesIdle == ctx = EmptyContext /\ buildError = Null

\* no request has been made with the client
NoRequest ==
    [who |-> Null, st |-> "idle", sent |-> 0, failures |-> <<>>, statusCode |-> NoStatus,
     error |-> Null]

Runs == 1..NumRuns
SaverIdle == [pc |-> "idle", url |-> Null, runs |-> <<>>, history |-> <<>>]

ClientIdle == client = NoRequest
StoreIdle == disk = <<>> /\ savers = [r \in Runs |-> SaverIdle]

NoHashes == [a |-> {}, b |-> {}, st |-> "idle", ab |-> NoNumber, ba |-> NoNumber,
             aa |-> NoNumber]
HashesIdle == hashes = NoHashes
NoDetectorRun == [st |-> "idle", results |-> <<>>, executed |-> <<>>]
DetectorsIdle == detectorRun = NoDetectorRun
NoDupCheck == [st |-> "idle", blocks |-> <<>>, fingerprintCount |-> 0, duplicates |-> <<>>,
               warnings |-> 0, improvements |-> 0]
DuplicatesIdle == dupCheck = NoDupCheck
NoRobotsInput ==
    [st |-> "idle", text |-> [isNull |-> TRUE, lines |-> <<>>], candidates |-> <<>>]
CandidatesIdle == robotsInput = NoRobotsInput
TechIdle == HashesIdle /\ DetectorsIdle /\ DuplicatesIdle /\ CandidatesIdle
ServicesIdle == ClientIdle /\ StoreIdle /\ TechIdle

(***************************************************************************)
(* The fetch layer and analyzeSite                                         *)
(***************************************************************************)
DEFAULT_ANALYSIS_TIMEOUT_MS == 90000

\* ANALYSIS_TIMEOUT_MS when the environment does not override it
ANALYSIS_TIMEOUT_MS == DEFAULT_ANALYSIS_TIMEOUT_MS

Fetchers == {"psi", "html", "robots", "sitemap", "geo"}
PrimaryFetchers == {"psi", "html", "robots"}

\* every cache of the run is read and written under one key (one target URL)
RunKey == "k1"

\* robots.txt bodies, as lines split at ":" and trimmed
RobotsTwoSitemaps == <<<<"User-agent", "*">>, <<"Sitemap", "/sitemap_index.xml">>,
                       <<"sitemap", "/news.xml">>>>
\* five Sitemap lines, one of them repeated: four distinct candidates
RobotsFiveSitemaps ==
    <<<<"User-agent", "*">>, <<"Sitemap", "/sitemap_index.xml">>, <<"sitemap", "/news.xml">>,
      <<"Sitemap", "/sitemap_index.xml">>, <<"SITEMAP", "/pages.xml">>,
      <<"Sitemap", "/posts.xml">>>>
RobotsBodies == {<<>>, RobotsFiveSitemaps}

\* RobotsResult.text of a body: null when the trimmed body is empty
RobotsText(body) == [isNull |-> body = <<>>, lines |-> body]
NullRobotsText == [isNull |-> TRUE, lines |-> <<>>]

\* /^sitemap:/i.test(line)
IsSitemapLine(line) == Len(line) >= 2 /\ line[1] \in {"Sitemap", "sitemap", "SITEMAP"}

\* the path of a reference resolved against an origin: a reference without a
\* leading slash is a path relative to the root
ResolvedPath(ref) ==
    CASE ref = "https" -> "/https"
      [] ref = "http" -> "/http"
      [] OTHER -> ref

\* new URL(ref, origin.origin).toString()
SitemapUrl(ref, origin) ==
    [scheme |-> origin.scheme, host |-> origin.host, ref |-> ResolvedPath(ref)]

RECURSIVE AddSitemapLines(_, _, _, _)
AddSitemapLines(lines, i, origin, cands) ==
    IF i > Len(lines) THEN cands
    ELSE LET line == lines[i]
             sitemapUrl == Trim(line[2])
             url == SitemapUrl(sitemapUrl, origin)
         IN IF IsSitemapLine(line) /\ sitemapUrl # "" /\ url \notin SeqRange(cands)
            THEN AddSitemapLines(lines, i + 1, origin, Append(cands, url))
            ELSE AddSitemapLines(lines, i + 1, origin, cands)

\* mutant of collectSitemapCandidates: every candidate is kept
collectSitemapCandidates_NoSlice(robotsTxt, origin) ==
    LET fromRobots == IF robotsTxt.isNull THEN <<>>
                      ELSE AddSitemapLines(robotsTxt.lines, 1, origin, <<>>)
    IN IF fromRobots = <<>> THEN <<SitemapUrl("/sitemap.xml", origin)>> ELSE fromRobots

\* collectSitemapCandidates(robotsTxt, origin)
collectSitemapCandidates(robotsTxt, origin) ==
    LET fromRobots == IF robotsTxt.isNull THEN <<>>
                      ELSE AddSitemapLines(robotsTxt.lines, 1, origin, <<>>)
        all == IF fromRobots = <<>> THEN <<SitemapUrl("/sitemap.xml", origin)>>
               ELSE fromRobots
    IN SubSeq(all, 1, Min(3, Len(all)))

\* the documents an HTML response may carry: its <a href> elements and whether
\* it has an og:image meta tag
DocOfLinks(n) == [i \in 1..n |-> [href |-> RelativeHref(i), rel |-> Null]]
HtmlBodies == {[anchors |-> DocOfLinks(0), ogImage |-> FALSE],
               [anchors |-> DocOfLinks(1), ogImage |-> TRUE]}

NoFetch ==
    [st |-> "idle", val |-> Null, cands |-> <<>>, fetched |-> <<>>,
     hasHreflang |-> FALSE, abortedInFlight |-> FALSE, snap |-> NoEntry]

\* cache.get(key) returns a value that passes `if (cached)`
CacheHit(s, k, t) == s[k].present /\ s[k].expiresAt > t /\ ~s[k].value.isNull

\* the promise of an HTTP request made with the signal: a request made with an
\* aborted signal is rejected without being sent
Requested(f, isAborted) == [f EXCEPT !.st = IF isAborted THEN "aborting" ELSE "inflight"]

\* the part of a fetcher that runs before its first await: the cache lookup
\* and, on a miss, the request
CallFetcher(s, skipCache, t, isAborted) ==
    IF ~skipCache /\ CacheHit(s, RunKey, t)
    THEN [NoFetch EXCEPT !.st = "resolved", !.val = s[RunKey].value]
    ELSE Requested(NoFetch, isAborted)

\* the cache after the lookup of the call
StoreAfterCall(s, skipCache, t) == IF skipCache THEN s ELSE TtlGetStore(s, RunKey, t)

\* mutant of StoreAfterSet: the value is stored whatever skipCache is
StoreAfterSet_Always(s, skipCache, v, t) == TtlSet(s, RunKey, v, CACHE_TTL_MS, t)

\* `if (!skipCache) cache.set(cacheKey, value)`
StoreAfterSet(s, skipCache, v, t) ==
    IF skipCache THEN s ELSE TtlSet(s, RunKey, v, CACHE_TTL_MS, t)

\* fetchSitemaps: the part before the first await
CallSitemaps(s, robotsTxt, origin, skipCache, t, isAborted) ==
    IF ~skipCache /\ CacheHit(s, RunKey, t)
    THEN [NoFetch EXCEPT !.st = "resolved", !.val = s[RunKey].value]
    ELSE Requested([NoFetch EXCEPT !.cands = collectSitemapCandidates(robotsTxt, origin)],
                   isAborted)

RunIdle ==
    [pc |-> "idle", skipCache |-> FALSE, outcome |-> "none", timer |-> "unarmed",
     reason |-> "none", startedAt |-> 0, deadlineAt |-> 0, mod |-> 0,
     abortedAtSettle |-> FALSE, deadlineDuringPsi |-> FALSE]

NoSignal == [given |-> FALSE, aborted |-> FALSE, reasonIsError |-> FALSE]

\* the values the fetchers resolve with
PsiPayload == [isNull |-> FALSE, lighthouseResult |-> TRUE]
HtmlResult(body) == [isNull |-> FALSE, body |-> body]
RobotsResult(text) == [isNull |-> FALSE, text |-> text]
GeoResponse(status) == [isNull |-> FALSE, status |-> status]
NullValue == [isNull |-> TRUE]

\* entries left in the caches by an earlier run at time 0
WarmValue(f) ==
    CASE f = "psi" -> PsiPayload
      [] f = "html" -> HtmlResult(CHOOSE b \in HtmlBodies : b.ogImage)
      [] f = "robots" -> RobotsResult(RobotsText(RobotsTwoSitemaps))
      [] f = "sitemap" ->
            [isNull |-> FALSE,
             urls |-> <<SitemapUrl("/sitemap.xml", SiteOrigin)>>,
             fetched |-> <<[url |-> SitemapUrl("/sitemap.xml", SiteOrigin), ok |-> TRUE,
                            statusCode |-> 200]>>,
             hasHreflang |-> FALSE]
      [] f = "geo" -> GeoResponse("success")
WarmStore(f) == TtlSet(EmptyStore, RunKey, WarmValue(f), CACHE_TTL_MS, 0)

\* controller.abort(): the requests in flight are destroyed (abortedInFlight and
\* snap record the cache entry of the fetcher at that moment)
AbortFetches(fs, cs) ==
    [f \in Fetchers |->
        IF fs[f].st = "inflight"
        THEN [fs[f] EXCEPT !.st = "aborting", !.abortedInFlight = TRUE,
                           !.snap = cs[f][RunKey]]
        ELSE fs[f]]

\* mutant of CatchOutcome: the error caught is rethrown
CatchOutcome_Rethrow(isAborted, reason, reasonIsError, error) == error

\* mutant of CatchOutcome: an error caught while the scope is live is replaced
CatchOutcome_Generic(isAborted, reason, reasonIsError, error) ==
    IF isAborted
    THEN IF reason = "timeout" THEN "timeout"
         ELSE IF reasonIsError THEN "external"
         ELSE "Analysis aborted"
    ELSE "Analysis failed"

\* the catch block of analyzeSite: what the run rejects with
CatchOutcome(isAborted, reason, reasonIsError, error) ==
    IF isAborted
    THEN IF reason = "timeout" THEN "timeout"
         ELSE IF reasonIsError THEN "external"
         ELSE "Analysis aborted"
    ELSE error

\* mutant of TimerCleared: the timer is left running
TimerCleared_LeftRunning(timer) == timer

\* finally { cleanup() }: clearTimeout
TimerCleared(timer) == IF timer = "armed" THEN "cleared" ELSE timer

\* analyzeSite rejects from inside the try block with `error`
RunRejected(r, error, isAborted) ==
    [r EXCEPT !.pc = "rejected",
              !.outcome = CatchOutcome(isAborted, r.reason, ext.reasonIsError, error),
              !.timer = TimerCleared(r.timer),
              !.abortedAtSettle = isAborted]

\* analyzeSite returns the AnalysisResult
RunResolved(r, isAborted) ==
    [r EXCEPT !.pc = "resolved", !.outcome = "result",
              !.timer = TimerCleared(r.timer), !.abortedAtSettle = isAborted]

\* a continuation of the run is ready: it runs before any timer or I/O event
AbortDeliveryPending ==
    \/ \E f \in Fetchers : fetches[f].st = "aborting"
    \/ \E w \in DOMAIN ls.workers : ls.workers[w].st = "aborting"

\* MODULE_DEFINITIONS, in order
MODULE_KEYS ==
    <<"performance", "schema", "geo", "seo_basics", "social", "security",
      "accessibility", "links">>

\* computePerformance, computeGeo, computeSeoBasics, computeSecurity,
\* computeAccessibility and computeLinks complete without I/O; computeSocial
\* does when the page has no og:image
ModuleIsSync(m, html) ==
    \/ MODULE_KEYS[m] \notin {"schema", "social"}
    \/ MODULE_KEYS[m] = "social" /\ ~html.body.ogImage

ContinuationPending ==
    \/ /\ run.pc = "primary"
       /\ \/ \E f \in PrimaryFetchers : fetches[f].st = "rejected"
          \/ \A f \in PrimaryFetchers : fetches[f].st = "resolved"
    \/ /\ run.pc = "secondary"
       /\ fetches["sitemap"].st = "resolved"
       /\ fetches["geo"].st = "resolved"
       /\ ls.phase = "done"
    \/ ls.phase = "running" /\ AllWorkersDone(ls)
    \/ run.pc = "scoring" /\ ModuleIsSync(run.mod, fetches["html"].val)

Quiescent == ~AbortDeliveryPending /\ ~ContinuationPending

\* options.signal: absent, not aborted, or already aborted with a reason that
\* is or is not an Error
ExternalSignals ==
    {NoSignal, [given |-> TRUE, aborted |-> FALSE, reasonIsError |-> FALSE]} \cup
    {[given |-> TRUE, aborted |-> TRUE, reasonIsError |-> e] : e \in BOOLEAN}

\* analyzeSite(options) up to `await Promise.all([psiPromise, ...])`
RunStart ==
    /\ run.pc = "idle"
    /\ \E urlOk \in BOOLEAN, skip \in BOOLEAN, signal \in ExternalSignals :
        /\ ext' = signal
        /\ IF ~urlOk
           THEN /\ run' = [run EXCEPT !.pc = "rejected", !.outcome = "url is required",
                                      !.skipCache = skip]
                /\ UNCHANGED <<aborted, fetches, caches>>
           ELSE LET isAborted == signal.given /\ signal.aborted IN
                /\ aborted' = isAborted
                /\ run' = [run EXCEPT !.pc = "primary", !.skipCache = skip,
                                      !.timer = "armed", !.startedAt = now,
                                      !.deadlineAt = now + ANALYSIS_TIMEOUT_MS,
                                      !.reason = IF isAborted THEN "external" ELSE "none"]
                /\ fetches' = [f \in Fetchers |->
                                 IF f \in PrimaryFetchers
                                 THEN CallFetcher(caches[f], skip, now, isAborted)
                                 ELSE NoFetch]
                /\ caches' = [f \in Fetchers |->
                                 IF f \in PrimaryFetchers
                                 THEN StoreAfterCall(caches[f], skip, now)
                                 ELSE caches[f]]
    /\ UNCHANGED <<now, ls, otherThanRun>>

Settle(f, newFetch, newStore) ==
    /\ fetches' = [fetches EXCEPT ![f] = newFetch]
    /\ caches' = [caches EXCEPT ![f] = newStore]
    /\ UNCHANGED <<now, aborted, ls, run, ext, otherThanRun>>

Resolved(f, v) == [f EXCEPT !.st = "resolved", !.val = v]
Rejected(f, e) == [f EXCEPT !.st = "rejected", !.val = e]

\* fetchPsi after the response: a payload without lighthouseResult is an error
PsiResponds ==
    /\ Quiescent /\ fetches["psi"].st = "inflight"
    /\ \E hasLighthouse \in BOOLEAN :
        IF hasLighthouse
        THEN Settle("psi", Resolved(fetches["psi"], PsiPayload),
                    StoreAfterSet(caches["psi"], run.skipCache, PsiPayload, now))
        ELSE Settle("psi", Rejected(fetches["psi"], "no Lighthouse result"), caches["psi"])

\* network error, HTTP error or request timeout of the PageSpeed request
PsiFails ==
    /\ Quiescent /\ fetches["psi"].st = "inflight"
    /\ Settle("psi", Rejected(fetches["psi"], "psi request failed"), caches["psi"])

\* fetchHtmlDocument after the response
HtmlResponds ==
    /\ Quiescent /\ fetches["html"].st = "inflight"
    /\ \E status \in {200, 404}, isHtml \in BOOLEAN, body \in HtmlBodies :
        IF status >= 400
        THEN Settle("html", Rejected(fetches["html"], "Unable to download HTML"),
                    caches["html"])
        ELSE IF ~isHtml
        THEN Settle("html", Rejected(fetches["html"], "NON_HTML"), caches["html"])
        ELSE Settle("html", Resolved(fetches["html"], HtmlResult(body)),
                    StoreAfterSet(caches["html"], run.skipCache, HtmlResult(body), now))

HtmlFails ==
    /\ Quiescent /\ fetches["html"].st = "inflight"
    /\ Settle("html", Rejected(fetches["html"], "html request failed"), caches["html"])

\* fetchRobotsTxt resolves with `result` and stores it
RobotsSettles(result) ==
    Settle("robots", Resolved(fetches["robots"], result),
           StoreAfterSet(caches["robots"], run.skipCache, result, now))

\* fetchRobotsTxt after the response (throwHttpErrors: false)
RobotsResponds ==
    /\ Quiescent /\ fetches["robots"].st = "inflight"
    /\ \E status \in {200, 404}, body \in RobotsBodies :
        IF status >= 400
        THEN RobotsSettles(RobotsResult(NullRobotsText))
        ELSE RobotsSettles(RobotsResult(RobotsText(body)))

\* fetchRobotsTxt: the catch block after a network error or timeout
RobotsFails ==
    /\ Quiescent /\ fetches["robots"].st = "inflight"
    /\ RobotsSettles(RobotsResult(NullRobotsText))

\* fetchSitemaps: `entry` is pushed for the current candidate; the loop ends at
\* a successful fetch (`stop`) or after the last candidate, then the summary is
\* stored and returned; otherwise the next candidate is requested
SitemapAdvance(f, entry, stop, hreflang, isAborted) ==
    LET fetched == Append(f.fetched, entry)
        g == [f EXCEPT !.fetched = fetched, !.hasHreflang = hreflang]
        summary == [isNull |-> FALSE, urls |-> f.cands, fetched |-> fetched,
                    hasHreflang |-> hreflang]
    IN IF stop \/ Len(fetched) = Len(f.cands)
       THEN Settle("sitemap", Resolved(g, summary),
                   StoreAfterSet(caches["sitemap"], run.skipCache, summary, now))
       ELSE Settle("sitemap", Requested(g, isAborted), caches["sitemap"])

\* the candidate being fetched
SitemapCandidate(f) == f.cands[Len(f.fetched) + 1]

SitemapResponds ==
    /\ Quiescent /\ fetches["sitemap"].st = "inflight"
    /\ \E status \in {200, 404}, hreflang \in BOOLEAN :
        LET f == fetches["sitemap"]
            failed == status >= 400
        IN SitemapAdvance(f, [url |-> SitemapCandidate(f), ok |-> ~failed,
                              statusCode |-> status],
                          ~failed, ~failed /\ hreflang, aborted)

\* the catch block inside the loop
SitemapFails ==
    /\ Quiescent /\ fetches["sitemap"].st = "inflight"
    /\ LET f == fetches["sitemap"] IN
       SitemapAdvance(f, [url |-> SitemapCandidate(f), ok |-> FALSE, statusCode |-> NoStatus],
                      FALSE, FALSE, aborted)

\* lookupGeo after the response: a truthy response is stored
GeoResponds ==
    /\ Quiescent /\ fetches["geo"].st = "inflight"
    /\ \E status \in {"success", "fail"} :
        Settle("geo", Resolved(fetches["geo"], GeoResponse(status)),
               StoreAfterSet(caches["geo"], run.skipCache, GeoResponse(status), now))

\* mutant of GeoFails: lookupGeo without its catch block
GeoFails_Throws ==
    /\ Quiescent /\ fetches["geo"].st = "inflight"
    /\ Settle("geo", Rejected(fetches["geo"], "geo request failed"), caches["geo"])

\* lookupGeo: catch { return null }
GeoFails ==
    /\ Quiescent /\ fetches["geo"].st = "inflight"
    /\ Settle("geo", Resolved(fetches["geo"], NullValue), caches["geo"])

\* the order in which analyzeSite calls the fetchers
CallOrder(f) ==
    CASE f = "psi" -> 1 [] f = "html" -> 2 [] f = "robots" -> 3 [] f = "sitemap" -> 4
      [] f = "geo" -> 5

\* the rejection of an aborted request reaches the fetcher that awaits it (the
\* rejections of one abort are delivered in the order the requests were made)
FetchAborted ==
    \E f \in Fetchers :
        /\ fetches[f].st = "aborting"
        /\ \A g \in Fetchers : fetches[g].st = "aborting" => CallOrder(f) <= CallOrder(g)
        /\ CASE f = "psi" -> Settle(f, Rejected(fetches[f], "AbortError"), caches[f])
             [] f = "html" -> Settle(f, Rejected(fetches[f], "AbortError"), caches[f])
             [] f = "robots" -> RobotsSettles(RobotsResult(NullRobotsText))
             [] f = "sitemap" ->
                    SitemapAdvance(fetches[f],
                                   [url |-> SitemapCandidate(fetches[f]), ok |-> FALSE,
                                    statusCode |-> NoStatus],
                                   FALSE, FALSE, aborted)
             [] f = "geo" -> Settle(f, Resolved(fetches[f], NullValue), caches[f])

\* HEAD probes of the link sampler while the run is in its secondary fan-out
RunProbeResponds == Quiescent /\ \E status \in {200, 400} : ProbeResponds(status)
RunProbeFails == Quiescent /\ LinksProbeFails

\* Promise.all of the primary fan-out is fulfilled: the secondary fan-out starts
RunAfterPrimary ==
    /\ run.pc = "primary"
    /\ \A f \in PrimaryFetchers : fetches[f].st = "resolved"
    /\ run' = [run EXCEPT !.pc = "secondary"]
    /\ fetches' = [fetches EXCEPT
          !["sitemap"] = CallSitemaps(caches["sitemap"], fetches["robots"].val.text,
                                      SiteOrigin, run.skipCache, now, aborted),
          !["geo"] = CallFetcher(caches["geo"], run.skipCache, now, aborted)]
    /\ caches' = [caches EXCEPT
          !["sitemap"] = StoreAfterCall(@, run.skipCache, now),
          !["geo"] = StoreAfterCall(@, run.skipCache, now)]
    /\ ls' = LinkSampleStart(fetches["html"].val.body.anchors, SiteOrigin, aborted)
    /\ UNCHANGED <<now, aborted, ext, otherThanRun>>

\* Promise.all of the primary fan-out is rejected: catch and finally
RunPrimaryRejected ==
    /\ run.pc = "primary"
    /\ \E f \in PrimaryFetchers :
        /\ fetches[f].st = "rejected"
        /\ run' = RunRejected(run, fetches[f].val, aborted)
    /\ UNCHANGED <<now, aborted, ls, fetches, caches, ext, otherThanRun>>

\* mutant of RunAfterSecondary: the link sample is not awaited
RunAfterSecondary_LinksNotAwaited ==
    /\ run.pc = "secondary"
    /\ fetches["sitemap"].st = "resolved"
    /\ fetches["geo"].st = "resolved"
    /\ run' = [run EXCEPT !.pc = "scoring", !.mod = 1]
    /\ UNCHANGED <<now, aborted, ls, fetches, caches, ext, otherThanRun>>

\* Promise.all of the secondary fan-out is fulfilled: buildModuleResults starts
RunAfterSecondary ==
    /\ run.pc = "secondary"
    /\ fetches["sitemap"].st = "resolved"
    /\ fetches["geo"].st = "resolved"
    /\ ls.phase = "done"
    /\ run' = [run EXCEPT !.pc = "scoring", !.mod = 1]
    /\ UNCHANGED <<now, aborted, ls, fetches, caches, ext, otherThanRun>>

\* buildModuleResults: the module's result is pushed; after the last module
\* the overall score is computed and saveAnalysisRun is called
ModulePushed(r) ==
    IF r.mod = Len(MODULE_KEYS) THEN [r EXCEPT !.pc = "saving"]
    ELSE [r EXCEPT !.mod = @ + 1]

\* a module computed without I/O; computePerformance may throw on the payload,
\* which rejects buildModuleResults and the run
ModuleComputed ==
    /\ run.pc = "scoring"
    /\ ModuleIsSync(run.mod, fetches["html"].val)
    /\ \E throws \in {FALSE} \cup {MODULE_KEYS[run.mod] = "performance"} :
          run' = IF throws THEN RunRejected(run, "TypeError", aborted)
                 ELSE ModulePushed(run)
    /\ UNCHANGED <<now, aborted, ls, fetches, caches, ext, otherThanRun>>

\* computeSchema: structuredDataTest settles (a rejection is caught)
SchemaValidatorSettles ==
    /\ Quiescent
    /\ run.pc = "scoring" /\ MODULE_KEYS[run.mod] = "schema"
    /\ run' = ModulePushed(run)
    /\ UNCHANGED <<now, aborted, ls, fetches, caches, ext, otherThanRun>>

\* computeSocial: the HEAD request of the og:image settles (made without the
\* signal; an error is caught)
SocialProbeSettles ==
    /\ Quiescent
    /\ run.pc = "scoring" /\ MODULE_KEYS[run.mod] = "social"
    /\ fetches["html"].val.body.ogImage
    /\ run' = ModulePushed(run)
    /\ UNCHANGED <<now, aborted, ls, fetches, caches, ext, otherThanRun>>

\* saveAnalysisRun settles
SaveSettles ==
    /\ Quiescent
    /\ run.pc = "saving"
    /\ \E saved \in BOOLEAN :
        run' = IF saved THEN [run EXCEPT !.pc = "history"]
               ELSE RunRejected(run, "save failed", aborted)
    /\ UNCHANGED <<now, aborted, ls, fetches, caches, ext, otherThanRun>>

\* getAnalysisSnapshotsForUrl settles; on success analyzeSite returns
HistorySettles ==
    /\ Quiescent
    /\ run.pc = "history"
    /\ \E loaded \in BOOLEAN :
        run' = IF loaded THEN RunResolved(run, aborted)
               ELSE RunRejected(run, "history failed", aborted)
    /\ UNCHANGED <<now, aborted, ls, fetches, caches, ext, otherThanRun>>

\* controller.abort(reason) on a controller that is not aborted yet
ControllerAbort(reason) ==
    /\ aborted' = TRUE
    /\ fetches' = AbortFetches(fetches, caches)
    /\ ls' = LinkSampleAbort(ls)
    /\ run' = [run EXCEPT !.reason = reason,
                          !.timer = IF reason = "timeout" THEN "fired" ELSE @,
                          !.deadlineDuringPsi = reason = "timeout" /\ run.pc = "primary"
                                                /\ fetches["psi"].st = "inflight"]

\* the setTimeout callback of createAbortController
DeadlineFires ==
    /\ Quiescent
    /\ run.timer = "armed"
    /\ now >= run.deadlineAt
    /\ IF aborted
       THEN /\ run' = [run EXCEPT !.timer = "fired"]
            /\ UNCHANGED <<aborted, fetches, ls>>
       ELSE ControllerAbort("timeout")
    /\ UNCHANGED <<now, caches, ext, otherThanRun>>

\* the caller's signal aborts: relay, registered at run start and removed only
\* when the controller aborts, calls controller.abort(external.reason)
ExternalAbort ==
    /\ Quiescent
    /\ run.pc \notin {"idle"}
    /\ run.timer # "unarmed"
    /\ ext.given /\ ~ext.aborted
    /\ \E isError \in BOOLEAN : ext' = [ext EXCEPT !.aborted = TRUE, !.reasonIsError = isError]
    /\ IF aborted
       THEN UNCHANGED <<aborted, fetches, ls, run>>
       ELSE ControllerAbort("external")
    /\ UNCHANGED <<now, caches, otherThanRun>>

\* time passes until the deadline is due
RunTick ==
    /\ Quiescent
    /\ run.timer = "armed"
    /\ now < run.deadlineAt
    /\ now' = run.deadlineAt
    /\ UNCHANGED <<aborted, ls, runVars, otherThanRun>>

\* which caches hold an entry of an earlier run of the same URL
WarmSets == {{}, {"psi", "html"}, PrimaryFetchers, Fetchers}

RunIsIdle == run = RunIdle /\ fetches = [f \in Fetchers |-> NoFetch] /\ ext = NoSignal

ColdCaches == caches = [f \in Fetchers |-> EmptyStore]

InitRun ==
    /\ now = 0
    /\ store = EmptyStore
    /\ cacheLog = <<NoOp, NoOp>>
    /\ LinksIdle
    /\ ScoreIdle /\ ModulesIdle /\ ServicesIdle
    /\ RunIsIdle
    /\ \E warm \in WarmSets :
          caches = [f \in Fetchers |-> IF f \in warm THEN WarmStore(f) ELSE EmptyStore]

NextRun ==
    \/ RunStart
    \/ PsiResponds
    \/ PsiFails
    \/ HtmlResponds
    \/ HtmlFails
    \/ RobotsResponds
    \/ RobotsFails
    \/ SitemapResponds
    \/ SitemapFails
    \/ GeoResponds
    \/ GeoFails
    \/ FetchAborted
    \/ RunProbeResponds
    \/ RunProbeFails
    \/ LinksProbeAborted
    \/ LinksFinish
    \/ RunAfterPrimary
    \/ RunPrimaryRejected
    \/ RunAfterSecondary
    \/ ModuleComputed
    \/ SchemaValidatorSettles
    \/ SocialProbeSettles
    \/ SaveSettles
    \/ HistorySettles
    \/ DeadlineFires
    \/ ExternalAbort
    \/ RunTick

SpecRun == InitRun /\ [][NextRun]_vars


InitCache ==
    /\ now = 0
    /\ store = EmptyStore
    /\ cacheLog = <<NoOp, NoOp>>
    /\ LinksIdle
    /\ RunIsIdle /\ ColdCaches
    /\ ScoreIdle /\ ModulesIdle /\ ServicesIdle

NextCache ==
    \/ CacheSetExplicit
    \/ CacheSetDefault
    \/ CacheGet
    \/ CacheDelete
    \/ CacheClear
    \/ CacheTick

SpecCache == InitCache /\ [][NextCache]_vars

CacheIdle == now = 0 /\ store = EmptyStore /\ cacheLog = <<NoOp, NoOp>>

InitLinks ==
    /\ aborted = FALSE
    /\ ls = LsIdle
    /\ CacheIdle
    /\ RunIsIdle /\ ColdCaches
    /\ ScoreIdle /\ ModulesIdle /\ ServicesIdle

NextLinks ==
    \/ LinksStart
    \/ LinksProbeResponds
    \/ LinksProbeFails
    \/ LinksProbeAborted
    \/ LinksAbort
    \/ LinksFinish

SpecLinks == InitLinks /\ [][NextLinks]_vars

(***************************************************************************)
(* Specification of calculateWeightedScore on lists of modules             *)
(***************************************************************************)
\* calculateWeightedScore(modules) for a list of at most MaxModules modules
ScoreCompute ==
    /\ overall = NoNumber
    /\ \E n \in 0..MaxModules :
          \E mods \in [1..n -> ModuleInputs] :
              /\ modules' = mods
              /\ overall' = calculateWeightedScore(mods)
    /\ UNCHANGED <<prevOverall, otherThanScore>>

\* calculateWeightedScore on the same modules in another order
ScoreReordered ==
    /\ overall # NoNumber
    /\ \E i \in DOMAIN modules :
          /\ i + 1 \in DOMAIN modules
          /\ modules[i] # modules[i + 1]
          /\ modules' = Swap(modules, i, i + 1)
          /\ overall' = calculateWeightedScore(modules')
          /\ prevOverall' = overall
    /\ UNCHANGED otherThanScore

InitScore ==
    /\ ScoreIdle /\ ModulesIdle /\ ServicesIdle
    /\ CacheIdle
    /\ LinksIdle
    /\ RunIsIdle /\ ColdCaches

NextScore ==
    \/ ScoreCompute
    \/ ScoreReordered

SpecScore == InitScore /\ [][NextScore]_vars

(***************************************************************************)
(* Specification of buildModuleResults on the contexts                     *)
(***************************************************************************)
\* one iteration of the loop of buildModuleResults: the next definition's
\* computation runs on the context and its result is pushed
\* (a computation that throws rejects buildModuleResults: the loop has no catch)
BuildModuleResult ==
    /\ buildError = Null
    /\ Len(modules) < Len(MODULE_DEFINITIONS)
    /\ LET definition == MODULE_DEFINITIONS[Len(modules) + 1]
       IN IF ComputerThrows(definition.key, ctx)
          THEN /\ buildError' = "TypeError"
               /\ UNCHANGED modules
          ELSE /\ modules' = Append(modules,
                                    [key |-> definition.key,
                                     weight |-> FromInt(definition.weight),
                                     score |-> COMPUTERS(definition.key, ctx),
                                     issues |-> ComputedIssues(definition.key, ctx)])
               /\ UNCHANGED buildError
    /\ UNCHANGED <<ctx, overall, otherThanModules>>

\* the aggregation of the results of the eight modules
AggregateOverall ==
    /\ Len(modules) = Len(MODULE_DEFINITIONS)
    /\ overall = NoNumber
    /\ overall' = calculateWeightedScore(modules)
    /\ UNCHANGED <<ctx, buildError, modules, otherThanModules>>

InitModules ==
    /\ IsContext(ctx)
    /\ buildError = Null
    /\ ServicesIdle
    /\ ScoreIdle
    /\ CacheIdle
    /\ LinksIdle
    /\ RunIsIdle /\ ColdCaches

NextModules ==
    \/ BuildModuleResult
    \/ AggregateOverall

SpecModules == InitModules /\ [][NextModules]_vars

(***************************************************************************)
(* A request made with baseClient or a client extended from it             *)
(***************************************************************************)
\* who makes the request: fetchHtmlDocument (baseClient.get), fetchRobotsTxt
\* (robotsClient.get), fetchSitemaps (sitemapClient.get), headCheck
\* (httpClient.head); none of them overrides the retry option
Clients == {"html", "robots", "sitemap", "head"}

\* failures of an attempt for which the client retries a GET or HEAD request
NetworkErrors == {"ETIMEDOUT", "ECONNRESET", "ECONNREFUSED", "ENOTFOUND"}

\* throwHttpErrors of the call: only fetchHtmlDocument leaves the default, true
ThrowHttpErrors(who) == who = "html"

\* the first attempt of the request is sent
ClientRequest ==
    /\ client.st = "idle"
    /\ \E who \in Clients : client' = [client EXCEPT !.who = who, !.st = "inflight", !.sent = 1]
    /\ UNCHANGED otherThanClient

\* the attempt in flight gets a response
AttemptResponds ==
    /\ client.st = "inflight"
    /\ \E status \in {200, 404} :
          client' = IF status >= 400 /\ ThrowHttpErrors(client.who)
                    THEN [client EXCEPT !.st = "rejected", !.statusCode = status,
                                        !.error = "HTTPError"]
                    ELSE [client EXCEPT !.st = "resolved", !.statusCode = status]
    /\ UNCHANGED otherThanClient

\* the attempt in flight fails: it is retried while fewer than retry.limit
\* retries were made, otherwise the request rejects
AttemptFails ==
    /\ client.st = "inflight"
    /\ \E e \in NetworkErrors :
          client' = IF client.sent - 1 < RETRY_LIMIT
                    THEN [client EXCEPT !.st = "backoff", !.failures = Append(@, e)]
                    ELSE [client EXCEPT !.st = "rejected", !.failures = Append(@, e),
                                        !.error = e]
    /\ UNCHANGED otherThanClient

\* the retry delay is over: the next attempt is sent
RetryFires ==
    /\ client.st = "backoff"
    /\ client' = [client EXCEPT !.st = "inflight", !.sent = @ + 1]
    /\ UNCHANGED otherThanClient

\* the signal passed to the request aborts
ClientAbort ==
    /\ client.st \in {"inflight", "backoff"}
    /\ client' = [client EXCEPT !.st = "rejected", !.error = "AbortError"]
    /\ UNCHANGED otherThanClient

InitClient ==
    /\ client = NoRequest
    /\ StoreIdle /\ TechIdle
    /\ ScoreIdle /\ ModulesIdle
    /\ CacheIdle
    /\ LinksIdle
    /\ RunIsIdle /\ ColdCaches

NextClient ==
    \/ ClientRequest
    \/ AttemptResponds
    \/ AttemptFails
    \/ RetryFires
    \/ ClientAbort

SpecClient == InitClient /\ [][NextClient]_vars

(***************************************************************************)
(* analysis-store: the runs recorded in data/analysis-runs.json            *)
(***************************************************************************)
Urls == {"u1", "u2"}

\* the AnalysisRecord of a run (id 0: a record of an earlier run)
AnalysisRecord(id, url) == [id |-> id, normalizedUrl |-> url]

\* filtered.slice(Math.max(filtered.length - limit, 0))
Recent(filtered, limit) ==
    SubSeq(filtered, (IF Len(filtered) - limit > 0 THEN Len(filtered) - limit ELSE 0) + 1,
           Len(filtered))

\* getAnalysisSnapshotsForUrl(rawUrl, limit) on the records read
getAnalysisSnapshotsForUrl(records, url, limit) ==
    Recent(SelectSeq(records, LAMBDA rec : rec.normalizedUrl = url), limit)

\* a run has computed its overall score and calls saveAnalysisRun
StoreRunScored(r) ==
    /\ savers[r].pc = "idle"
    /\ \E url \in Urls : savers' = [savers EXCEPT ![r].pc = "saving", ![r].url = url]
    /\ UNCHANGED <<disk, otherThanStore>>

\* saveAnalysisRun: `const runs = await readAnalysisRuns()`
SaveReads(r) ==
    /\ savers[r].pc = "saving"
    /\ savers' = [savers EXCEPT ![r].pc = "writing", ![r].runs = disk]
    /\ UNCHANGED <<disk, otherThanStore>>

\* saveAnalysisRun: `runs.push(record); await writeAnalysisRuns(runs)`
SaveWrites(r) ==
    /\ savers[r].pc = "writing"
    /\ disk' = Append(savers[r].runs, AnalysisRecord(r, savers[r].url))
    /\ savers' = [savers EXCEPT ![r].pc = "history"]
    /\ UNCHANGED otherThanStore

\* analyzeSite: `await getAnalysisSnapshotsForUrl(finalOrigin.toString(), 10)`
HistoryReads(r) ==
    /\ savers[r].pc = "history"
    /\ savers' = [savers EXCEPT ![r].pc = "done",
                                ![r].history = getAnalysisSnapshotsForUrl(disk, savers[r].url, 10)]
    /\ UNCHANGED <<disk, otherThanStore>>

InitStore ==
    /\ disk \in {<<>>, <<AnalysisRecord(0, "u1")>>}
    /\ savers = [r \in Runs |-> SaverIdle]
    /\ ClientIdle /\ TechIdle
    /\ ScoreIdle /\ ModulesIdle
    /\ CacheIdle
    /\ LinksIdle
    /\ RunIsIdle /\ ColdCaches

NextStore ==
    \/ \E r \in Runs : StoreRunScored(r)
    \/ \E r \in Runs : SaveReads(r)
    \/ \E r \in Runs : SaveWrites(r)
    \/ \E r \in Runs : HistoryReads(r)

SpecStore == InitStore /\ [][NextStore]_vars

\* everything but the variable of the specification at hand is idle
CoreIdle ==
    /\ ClientIdle /\ StoreIdle
    /\ ScoreIdle /\ ModulesIdle
    /\ CacheIdle
    /\ LinksIdle
    /\ RunIsIdle /\ ColdCaches

(***************************************************************************)
(* SimHash fingerprints: a bigint is the set of the positions of its 1     *)
(* bits (position 0 is the least significant bit)                          *)
(***************************************************************************)
\* a ^ b
Xor(a, b) == (a \ b) \cup (b \ a)

\* x >> 1n
ShiftRight(x) == {i - 1 : i \in x \ {0}}

\* the loop of hammingDistance: `while (xor) { distance += Number(xor & 1n); xor >>= 1n }`
RECURSIVE CountBits(_, _)
CountBits(xor, distance) ==
    IF xor = {} THEN distance
    ELSE CountBits(ShiftRight(xor), distance + (IF 0 \in xor THEN 1 ELSE 0))

\* mutant of hammingDistance: only the bits of a that b lacks are counted
hammingDistance_OneSided(a, b) == CountBits(a \ b, 0)

hammingDistance(a, b) == CountBits(Xor(a, b), 0)

\* simHashSimilarity(a, b)
simHashSimilarity(a, b) ==
    IF a = {} /\ b = {} THEN FromInt(1)
    ELSE FSub(FromInt(1), FDiv(FromInt(hammingDistance(a, b)), FromInt(HASH_BITS)))

\* the fingerprints tried: every combination of the bits of SampleBits, and
\* the fingerprint with all 64 bits set
SampleBits == {0, 1, 31, 32, HASH_BITS - 2, HASH_BITS - 1}
AllBits == 0..(HASH_BITS - 1)
Fingerprints == (SUBSET SampleBits) \cup {AllBits}

\* simHashSimilarity is called on (a, b), (b, a) and (a, a)
SimCompare ==
    /\ hashes.st = "idle"
    /\ hashes' = [hashes EXCEPT !.st = "compared",
                                !.ab = simHashSimilarity(hashes.a, hashes.b),
                                !.ba = simHashSimilarity(hashes.b, hashes.a),
                                !.aa = simHashSimilarity(hashes.a, hashes.a)]
    /\ UNCHANGED otherThanHashes

InitSimHash ==
    /\ \E a \in Fingerprints, b \in Fingerprints :
          hashes = [NoHashes EXCEPT !.a = a, !.b = b]
    /\ DetectorsIdle /\ DuplicatesIdle /\ CandidatesIdle
    /\ CoreIdle

NextSimHash == SimCompare

SpecSimHash == InitSimHash /\ [][NextSimHash]_vars

(***************************************************************************)
(* runTechnicalDetectors                                                   *)
(***************************************************************************)
\* the detectors array, in order
detectors ==
    <<"detectFavicon", "detectCanonical", "detectRobotsMeta", "detectRobotsTxt",
      "detectAmpLink", "detectMobileViewport", "detectExternalLinkHealth",
      "detectGeoLocalization", "detectStructuredData", "detectDuplicateContent">>

\* messages of the errors a detector may throw
ErrorMessages == {"bad status", "Cannot read properties of null"}

\* what a detector does when it is awaited (observer record)
Returned(name) == [name |-> name, threw |-> FALSE, message |-> Null]
Threw(name, message) == [name |-> name, threw |-> TRUE, message |-> message]

\* the DetectorResult a detector returns
OwnResult(name) ==
    [module |-> name, detector |-> Null, critical |-> <<>>, warnings |-> <<>>,
     improvements |-> <<>>]

\* the DetectorResult pushed by the catch block
InternalError(name, message) ==
    [module |-> "internal_error", detector |-> name, critical |-> <<message>>,
     warnings |-> <<>>, improvements |-> <<>>]

\* runTechnicalDetectors up to the loop: fetchDocument resolves or rejects
\* (fetchRobotsTxt always resolves)
DetectorsStart ==
    /\ detectorRun.st = "idle"
    /\ \E fetched \in BOOLEAN :
          detectorRun' = [detectorRun EXCEPT !.st = IF fetched THEN "running" ELSE "rejected"]
    /\ UNCHANGED otherThanDetectors

\* after the push of the result of a detector: the loop goes on or ends
DetectorPushed(r, result, outcome) ==
    LET results == Append(r.results, result) IN
    [r EXCEPT !.results = results, !.executed = Append(@, outcome),
              !.st = IF Len(results) = Len(detectors) THEN "done" ELSE "running"]

\* mutant of RunDetector: the loop has no try/catch
RunDetector_NoCatch ==
    /\ detectorRun.st = "running"
    /\ LET name == detectors[Len(detectorRun.results) + 1] IN
       \/ detectorRun' = DetectorPushed(detectorRun, OwnResult(name), Returned(name))
       \/ \E message \in ErrorMessages :
             detectorRun' = [detectorRun EXCEPT !.st = "rejected",
                                               !.executed = Append(@, Threw(name, message))]
    /\ UNCHANGED otherThanDetectors

\* one pass of `for (const detector of detectors)`: the detector returns a
\* result or throws an Error, which the catch block turns into a result
RunDetector ==
    /\ detectorRun.st = "running"
    /\ LET name == detectors[Len(detectorRun.results) + 1] IN
       \/ detectorRun' = DetectorPushed(detectorRun, OwnResult(name), Returned(name))
       \/ \E message \in ErrorMessages :
             detectorRun' = DetectorPushed(detectorRun, InternalError(name, message),
                                           Threw(name, message))
    /\ UNCHANGED otherThanDetectors

InitDetectors ==
    /\ detectorRun = NoDetectorRun
    /\ HashesIdle /\ DuplicatesIdle /\ CandidatesIdle
    /\ CoreIdle

NextDetectors ==
    \/ DetectorsStart
    \/ RunDetector

SpecDetectors == InitDetectors /\ [][NextDetectors]_vars

(***************************************************************************)
(* detectDuplicateContent: a text block is its length and the fingerprint  *)
(* computeSimHash gives its text (equal texts have equal fingerprints)     *)
(***************************************************************************)
\* mutant of Chunks: the qualifying blocks are not cut to 40
Chunks_NoSlice(blocks) == SelectSeq(blocks, LAMBDA b : b.len >= 120)

\* `.filter((text) => text.length >= 120).slice(0, 40)`
Chunks(blocks) ==
    LET qualifying == SelectSeq(blocks, LAMBDA b : b.len >= 120)
    IN SubSeq(qualifying, 1, Min(40, Len(qualifying)))

\* `similarity >= 0.92`
IsDuplicate(a, b) == FCmp(simHashSimilarity(a, b), FromHundredths(92)) >= 0

\* the inner loop `for (let j = i + 1; ...)` for one i (0-based indexes): the
\* pairs (i, j) pushed, in the order of j
InnerLoop(fingerprints, i) ==
    SelectSeq([d \in 1..(Len(fingerprints) - 1 - i) |-> [a |-> i, b |-> i + d]],
              LAMBDA p : IsDuplicate(fingerprints[p.a + 1].hash, fingerprints[p.b + 1].hash))

\* the outer loop `for (let i = 0; ...)`
RECURSIVE OuterLoop(_, _, _)
OuterLoop(fingerprints, i, duplicates) ==
    IF i >= Len(fingerprints) THEN duplicates
    ELSE OuterLoop(fingerprints, i + 1, duplicates \o InnerLoop(fingerprints, i))

\* detectDuplicateContent on the text blocks of the document
detectDuplicateContent(blocks) ==
    LET fingerprints == Chunks(blocks)
        duplicates == OuterLoop(fingerprints, 0, <<>>)
    IN [st |-> "done", blocks |-> blocks, fingerprintCount |-> Len(fingerprints),
        duplicates |-> duplicates,
        warnings |-> IF Len(duplicates) >= 3 THEN 1 ELSE 0,
        improvements |-> IF Len(duplicates) >= 3 THEN 0
                         ELSE IF Len(duplicates) # 0 THEN 1 ELSE 0]

\* fingerprints of unrelated texts: any two of them differ in 6 bits or more
UnrelatedHash(k) == {7 * x + (((k \div 7) * x + k) % 7) : x \in 0..3}

\* the fingerprint of a repeated text, and of texts 5 and 6 bits away from it
RepeatedHash == UnrelatedHash(0)
NearHash(bits) == RepeatedHash \cup ((HASH_BITS - bits)..(HASH_BITS - 1))

\* the kinds of text block tried at the varied positions
BlockOf(kind, i) ==
    CASE kind = "unique" -> [len |-> 120, hash |-> UnrelatedHash(i)]
      [] kind = "copy" -> [len |-> 140, hash |-> RepeatedHash]
      [] kind = "near5" -> [len |-> 140, hash |-> NearHash(5)]
      [] kind = "near6" -> [len |-> 140, hash |-> NearHash(6)]
      [] kind = "short" -> [len |-> 119, hash |-> RepeatedHash]

\* the documents tried: DocSizes blocks, all with unrelated texts but those at
\* the first three positions and at positions 40 and 41
DocSizes == {0, 2, 3, 41}
VariedKinds ==
    [{1, 2, 3, 40, 41} -> {"unique", "copy", "near5", "near6", "short"}]
IsVariation(k) ==
    /\ k[1] \in {"unique", "copy"}
    /\ k[2] \in {"unique", "copy", "short"}
    /\ k[3] \in {"unique", "copy", "near5", "near6"}
    /\ k[40] \in {"unique", "copy"}
    /\ k[41] \in {"unique", "copy"}
DocumentOf(n, k) ==
    [i \in 1..n |-> IF i \in DOMAIN k THEN BlockOf(k[i], i) ELSE BlockOf("unique", i)]

DetectDuplicates ==
    /\ dupCheck.st = "idle"
    /\ dupCheck' = detectDuplicateContent(dupCheck.blocks)
    /\ UNCHANGED otherThanDuplicates

InitDuplicates ==
    /\ \E n \in DocSizes, k \in VariedKinds :
          /\ IsVariation(k)
          /\ dupCheck = [NoDupCheck EXCEPT !.blocks = DocumentOf(n, k)]
    /\ HashesIdle /\ DetectorsIdle /\ CandidatesIdle
    /\ CoreIdle

NextDuplicates == DetectDuplicates

SpecDuplicates == InitDuplicates /\ [][NextDuplicates]_vars

(***************************************************************************)
(* The sitemap candidates of a robots.txt.  A line is the sequence of the  *)
(* pieces line.split(":") yields.                                          *)
(***************************************************************************)
\* absolute sitemap URLs, on the analysed site and on another host
AbsoluteSitemaps ==
    {[scheme |-> "https", host |-> "site.test", ref |-> "/sitemap.xml"],
     [scheme |-> "https", host |-> "cdn.test", ref |-> "/sitemap_index.xml"],
     [scheme |-> "http", host |-> "site.test", ref |-> "/news.xml"]}

\* what follows "scheme:" in the text of an absolute URL
AfterScheme(u) ==
    CASE u.host = "site.test" /\ u.ref = "/sitemap.xml" -> "//site.test/sitemap.xml"
      [] u.host = "cdn.test" -> "//cdn.test/sitemap_index.xml"
      [] OTHER -> "//site.test/news.xml"

\* the pieces of the line "Sitemap: <u>"
AbsoluteSitemapLine(u) ==
    <<"Sitemap", IF u.scheme = "https" THEN " https" ELSE " http", AfterScheme(u)>>

RobotsLines ==
    {<<"User-agent", " *">>, <<"Disallow", " /admin">>, <<"Sitemap", " ">>,
     <<"sitemap", " /sitemap_index.xml">>}
        \cup {AbsoluteSitemapLine(u) : u \in AbsoluteSitemaps}

RobotsTexts ==
    {NullRobotsText, RobotsText(RobotsFiveSitemaps)}
        \cup {RobotsText(body) :
                body \in UNION {[1..n -> RobotsLines] : n \in 1..MaxRobotsLines}}

\* collectSitemapCandidates is called on the text of robots.txt
CollectSitemaps ==
    /\ robotsInput.st = "idle"
    /\ robotsInput' = [robotsInput EXCEPT
                          !.st = "collected",
                          !.candidates = collectSitemapCandidates(robotsInput.text, SiteOrigin)]
    /\ UNCHANGED otherThanCandidates

InitCandidates ==
    /\ \E text \in RobotsTexts : robotsInput = [NoRobotsInput EXCEPT !.text = text]
    /\ HashesIdle /\ DetectorsIdle /\ DuplicatesIdle
    /\ CoreIdle

NextCandidates == CollectSitemaps

SpecCandidates == InitCandidates /\ [][NextCandidates]_vars

(***************************************************************************)
(* Properties of TtlCache (checked under SpecCache)                        *)
(***************************************************************************)
LastCacheOp == cacheLog[1]
PrevCacheOp == cacheLog[2]

\* C6: get(key) never returns a value whose expiry time is at or before the
\* current time; a get that finds such an expired entry removes it from the
\* store and returns absent.
C6_GetNeverReturnsExpired ==
    LastCacheOp.op = "get" =>
        /\ (LastCacheOp.value # Null =>
                /\ LastCacheOp.found.present
                /\ LastCacheOp.found.expiresAt > LastCacheOp.at
                /\ LastCacheOp.value = LastCacheOp.found.value)
        /\ (LastCacheOp.found.present /\ LastCacheOp.found.expiresAt <= LastCacheOp.at =>
                /\ LastCacheOp.value = Null
                /\ ~store[LastCacheOp.key].present)

\* C6 witness: after the clock advanced, a get found an entry stored with a
\* positive TTL whose expiry had passed, evicted it and returned absent.
C6_Witness ==
    /\ LastCacheOp.op = "get"
    /\ LastCacheOp.at > 0
    /\ LastCacheOp.found.present
    /\ LastCacheOp.found.expiresAt > 0
    /\ LastCacheOp.found.expiresAt <= LastCacheOp.at
    /\ LastCacheOp.value = Null
    /\ LastCacheOp.evicted

SetThenGet ==
    /\ LastCacheOp.op = "get"
    /\ PrevCacheOp.op = "set"
    /\ PrevCacheOp.key = LastCacheOp.key
    /\ PrevCacheOp.at = LastCacheOp.at

\* C7 as stated: for any key, value and TTL accepted by set, a get performed
\* immediately after set(key, value, ttl), with no clock advance in between,
\* returns exactly the stored value.
C7_SetThenGetAnyTtl ==
    SetThenGet => LastCacheOp.value = PrevCacheOp.value

\* C7 amended: the same for every TTL greater than 0 (explicit or default),
\* regardless of what was stored under the key before.
C7_SetThenGetPositiveTtl ==
    SetThenGet /\ PrevCacheOp.ttl > 0 => LastCacheOp.value = PrevCacheOp.value

\* C7 witness: after the clock advanced, a set with a positive TTL was followed
\* at once by a get of the same key, which found the entry and returned its value.
C7_Witness ==
    /\ SetThenGet
    /\ PrevCacheOp.ttl > 0
    /\ PrevCacheOp.at > 0
    /\ LastCacheOp.found.present
    /\ LastCacheOp.value = PrevCacheOp.value


(***************************************************************************)
(* Properties of evaluateLinkSample (checked under SpecLinks)              *)
(***************************************************************************)
\* the workers whose HEAD request has not settled
ProbesInFlight == {w \in DOMAIN ls.workers : ls.workers[w].st \in {"probing", "aborting"}}

\* C3: at most LINK_CONCURRENCY HEAD probes are in flight at any moment, and
\* when sampling finishes the number of checked entries equals
\* min(distinct same-origin links of the document, LINK_SAMPLE_LIMIT).
C3_BoundedProbesAndSampleSize ==
    /\ Cardinality(ProbesInFlight) <= LINK_CONCURRENCY
    /\ ls.phase = "done" =>
            /\ Len(LinkSampleSummary(ls).checked) = Min(ls.found, LINK_SAMPLE_LIMIT)
            /\ LinkSampleSummary(ls).total = Min(ls.found, LINK_SAMPLE_LIMIT)

\* C3 witness: a document with more distinct same-origin links than the cap
\* was sampled to the end, with more candidates than workers.
C3_Witness ==
    /\ ls.phase = "done"
    /\ ls.found > LINK_SAMPLE_LIMIT
    /\ Len(ls.results) = LINK_SAMPLE_LIMIT
    /\ Len(ls.workers) = LINK_CONCURRENCY
    /\ Len(ls.candidates) > LINK_CONCURRENCY

\* C4: once the cancellation scope is aborted no worker pulls a candidate
\* that was still in the queue: queued-but-unstarted candidates are neither
\* requested nor appended to the checked results.
C4_NoPullAfterAbort ==
    ls.latePulls = 0

(***************************************************************************)
(* Properties of analyzeSite and the fetch layer (checked under SpecRun)   *)
(***************************************************************************)
RunSettled == run.pc \in {"resolved", "rejected"}

\* C1: a run whose cancellation scope was aborted before analyzeSite settled
\* rejects, with the timeout error when the deadline aborted it and with the
\* caller's reason otherwise; it never resolves with a result.
C1_AbortedRunRejects ==
    (RunSettled /\ run.abortedAtSettle) =>
        /\ run.pc = "rejected"
        /\ run.outcome = IF run.reason = "timeout" THEN "timeout" ELSE "external"

\* the secondary fan-out has not been started
NoSecondaryStarted ==
    /\ fetches["sitemap"].st = "idle"
    /\ fetches["geo"].st = "idle"
    /\ ls.phase = "idle"

\* C2: when the deadline fires while the PageSpeed fetch of the primary
\* fan-out is in flight, the run rejects with the timeout error as soon as
\* the rejection is delivered, no secondary fetch is started and no module
\* is computed; the deadline armed at run start is never moved.
C2_DeadlineDuringPsiRejectsWithTimeout ==
    /\ run.deadlineDuringPsi =>
            /\ run.pc \in {"primary", "rejected"}
            /\ Quiescent => run.pc = "rejected"
            /\ run.pc = "rejected" => run.outcome = "timeout"
            /\ NoSecondaryStarted
            /\ run.mod = 0
    /\ run.timer # "unarmed" => run.deadlineAt = run.startedAt + ANALYSIS_TIMEOUT_MS
    /\ run.timer = "fired" => now >= run.deadlineAt

\* C2 witness: HTML and robots had completed, the deadline fired while the
\* PageSpeed request was in flight, and the run has rejected.
C2_Witness ==
    /\ run.deadlineDuringPsi
    /\ run.pc = "rejected"
    /\ run.outcome = "timeout"
    /\ fetches["html"].st = "resolved"
    /\ fetches["robots"].st = "resolved"
    /\ fetches["psi"].st = "rejected"

SameEntry(a, b) ==
    /\ a.present = b.present
    /\ a.present => (a.expiresAt = b.expiresAt /\ a.value = b.value)

\* C5: a PageSpeed, HTML, robots or sitemap fetch whose request was in flight
\* when the signal aborted leaves its cache as it was at the abort.
C5_CancelledFetchLeavesCache ==
    \A f \in {"psi", "html", "robots", "sitemap"} :
        fetches[f].abortedInFlight =>
            \A k \in Keys :
                SameEntry(caches[f][k], IF k = RunKey THEN fetches[f].snap ELSE NoEntry)

(***************************************************************************)
(* Properties of calculateWeightedScore (checked under SpecScore)          *)
(***************************************************************************)
InRange(x) ==
    /\ x.kind = "fin"
    /\ FCmp(x, FromInt(0)) >= 0
    /\ FCmp(x, FromInt(10)) <= 0

\* C8: for every list of modules, whatever the scores and weights,
\* 0 <= calculateWeightedScore(modules) <= 10, and the result for the empty
\* list is 0.
C8_OverallWithinRange ==
    overall # NoNumber =>
        /\ InRange(overall)
        /\ modules = <<>> => FEq(overall, FromInt(0))

\* C8 witness: the result was computed for a full list whose weighted mean is
\* above 10 and was clamped to 10.
C8_Witness ==
    /\ Len(modules) = MaxModules
    /\ \A i \in DOMAIN modules :
          FEq(modules[i].score, FromInt(15)) /\ FEq(modules[i].weight, FromInt(1))
    /\ overall # NoNumber
    /\ FEq(overall, FromInt(10))

AllFinite(mods) ==
    \A i \in DOMAIN mods : mods[i].score.kind = "fin" /\ mods[i].weight.kind = "fin"

\* the real sums of score * weight and of weight over the list
RECURSIVE ExactTotals(_, _, _)
ExactTotals(mods, i, acc) ==
    IF i > Len(mods) THEN acc
    ELSE ExactTotals(mods, i + 1,
                     [weight |-> ExactSum(acc.weight, mods[i].weight),
                      sum |-> ExactSum(acc.sum, ExactProduct(mods[i].score, mods[i].weight))])

\* sum / weight rounded to two decimals (half up) and clamped to [0, 10], in
\* hundredths; 0 for a total weight of 0
WeightedMeanHundredths(mods) ==
    LET t == ExactTotals(mods, 1, [weight |-> Zero(FALSE), sum |-> Zero(FALSE)])
        g == IF t.sum.e <= t.weight.e THEN t.sum.e ELSE t.weight.e
        num == NatAdd(Shl(MulSmall(t.sum.m, 200), t.sum.e - g), Shl(t.weight.m, t.weight.e - g))
        den == Shl(MulSmall(t.weight.m, 2), t.weight.e - g)
        k == BitLen(den) - BitLen(t.weight.m)
        n == DivSmall(Shr(num, k), t.weight.m[1]).q
    IN IF IsZero(t.weight) \/ IsZero(t.sum) \/ t.sum.neg # t.weight.neg THEN 0
       ELSE IF NatCmp(n, NatOfInt(1000)) >= 0 THEN 1000
       ELSE NatToInt(n)

\* C9: calculateWeightedScore(modules) equals sum(score * weight) / sum(weight)
\* rounded to two decimals and clamped to [0, 10] (0 for the empty list and
\* for a total weight of 0), and the result does not change when the modules
\* are given in another order.
C9_WeightedMeanAndOrderIndependent ==
    overall # NoNumber =>
        /\ AllFinite(modules) =>
                FEq(overall, FromHundredths(WeightedMeanHundredths(modules)))
        /\ prevOverall # NoNumber => FEq(overall, prevOverall)

(***************************************************************************)
(* Properties of the module computations (checked under SpecModules)       *)
(***************************************************************************)
\* C10: for every context, each of the eight module computations returns a
\* score s with 0 <= s <= 10; this holds in particular for the geo module,
\* whose five rules add up to 11 points, and for the links module, which
\* subtracts from 10.
C10_ModuleScoresWithinRange ==
    [][\A i \in DOMAIN modules' :
          i \notin DOMAIN modules => InRange(modules'[i].score)]_vars

\* all eight modules are computed for a page whose geo rules give 11 points
\* and whose links lose every point: geo scores 10 and links 0
C10_Witness ==
    /\ Len(modules) = Len(MODULE_DEFINITIONS)
    /\ GeoPoints(ctx) = 11
    /\ modules[3].key = "geo" /\ FEq(modules[3].score, FromInt(10))
    /\ ctx.linkSample.broken > 0
    /\ modules[8].key = "links" /\ FEq(modules[8].score, FromInt(0))

\* the keys of the definitions in their fixed order
DefinitionKeys ==
    <<"performance", "schema", "geo", "seo_basics", "social", "security",
      "accessibility", "links">>

\* the sum of the weights of the results, accumulated as the aggregation does
WeightSum(mods) ==
    ReduceTotals(mods, 1, [weight |-> FromInt(0), sum |-> FromInt(0)]).weight

\* C11: buildModuleResults returns exactly one result per module definition,
\* in the fixed order performance, schema, geo, seo_basics, social, security,
\* accessibility, links, each with the weight of its definition, and the
\* weights of the returned results sum to exactly 100.  (MODULE_DEFINITIONS is
\* a constant of the model: no statement of the program assigns to it.)
C11_OneResultPerDefinition ==
    /\ Len(modules) <= Len(DefinitionKeys)
    /\ \A i \in DOMAIN modules :
          /\ modules[i].key = DefinitionKeys[i]
          /\ modules[i].key = MODULE_DEFINITIONS[i].key
          /\ FEq(modules[i].weight, FromInt(MODULE_DEFINITIONS[i].weight))
    /\ overall # NoNumber =>
          /\ Len(modules) = Len(DefinitionKeys)
          /\ FEq(WeightSum(modules), FromInt(100))

\* buildModuleResults has returned its eight results and they were aggregated
C11_Witness ==
    /\ overall # NoNumber
    /\ Len(modules) = Len(MODULE_DEFINITIONS)
    /\ buildError = Null

\* C15: a module computation that throws is caught: buildModuleResults does
\* not reject, the module of the throwing computation is pushed with score 0
\* and the modules after it are still computed.
C15_ThrowingModuleIsCaught ==
    /\ buildError = Null
    /\ \A i \in DOMAIN modules :
          ComputerThrows(modules[i].key, ctx) => FEq(modules[i].score, FromInt(0))

\* C16: for every context whose URL scheme is not https the security module
\* returns score exactly 0 and the issue counts critical 1, warning 0, info 0,
\* whatever the response headers and the mixed-content references are.
C16_NonHttpsSecurityIsZero ==
    \A i \in DOMAIN modules :
        modules[i].key = "security" /\ ~ctx.https =>
            /\ FEq(modules[i].score, FromInt(0))
            /\ modules[i].issues = [critical |-> 1, warning |-> 0, info |-> 0]

\* the security module ran on an http page that sends every protective header
\* and has a mixed-content reference
C16_Witness ==
    /\ Len(modules) >= 6 /\ modules[6].key = "security"
    /\ ~ctx.https
    /\ ctx.hsts # "" /\ ctx.xfo = "DENY" /\ ctx.mixedContent > 0

(***************************************************************************)
(* Failure of the primary fan-out                                          *)
(***************************************************************************)
\* fetchPsi or fetchHtmlDocument rejected with an error of its own (a missing
\* Lighthouse result, a status >= 400, a non-HTML content type, a failed
\* request), which happens only while the scope is not aborted
PrimaryFailed(f) == fetches[f].st = "rejected" /\ fetches[f].val # "AbortError"

NoSecondaryWork ==
    /\ fetches["sitemap"] = NoFetch
    /\ fetches["geo"] = NoFetch
    /\ ls = LsIdle
    /\ run.mod = 0

\* a failed primary fetch is observed by the run that still awaits the fan-out
\* (a fetch that fails after the run has rejected has no run left to fail)
PrimaryFailureObserved(f) == PrimaryFailed(f) /\ run.pc = "primary"

PrimaryFailureStopsRun ==
    \A f \in {"psi", "html"} :
        PrimaryFailed(f) => run.pc \in {"primary", "rejected"} /\ NoSecondaryWork

\* C12: when the PageSpeed fetch or the HTML fetch of the primary fan-out
\* rejects while the scope is not aborted, the next step of the run is that
\* analyzeSite rejects with that very error, and the run never starts a
\* sitemap fetch, a geo lookup, a link probe or a module computation.
C12_PrimaryFailureFailsRun ==
    /\ []PrimaryFailureStopsRun
    /\ [][\A f \in {"psi", "html"} :
            PrimaryFailureObserved(f) =>
                /\ ~aborted
                /\ run'.pc = "rejected"
                /\ run'.outcome = fetches[f].val
                /\ NoSecondaryWork']_vars

C12_Witness ==
    /\ PrimaryFailed("html") /\ fetches["html"].val = "NON_HTML"
    /\ fetches["psi"].st = "resolved" /\ fetches["robots"].st = "resolved"
    /\ run.pc = "rejected" /\ run.outcome = "NON_HTML"

(***************************************************************************)
(* The degraded sources                                                    *)
(***************************************************************************)
DegradedSourcesResolve ==
    /\ \A f \in {"robots", "sitemap", "geo"} : fetches[f].st # "rejected"
    /\ \A w \in DOMAIN ls.workers : ls.workers[w].st # "rejected"

\* the PageSpeed and the HTML fetch of the run succeeded and the run has not
\* reached buildModuleResults yet
BeforeScoring ==
    \/ run.pc = "primary" /\ fetches["psi"].st = "resolved" /\ fetches["html"].st = "resolved"
    \/ run.pc = "secondary"

\* some step of the run can be taken: a continuation is ready, the rejection of
\* an aborted request is due, or a request is in flight (got settles every
\* request: the fetchers pass timeout.request)
CanStep ==
    \/ ContinuationPending
    \/ AbortDeliveryPending
    \/ \E f \in Fetchers : fetches[f].st = "inflight"
    \/ \E w \in DOMAIN ls.workers : ls.workers[w].st = "probing"

\* an upper bound of the number of steps a fetcher still takes
FetchStepsLeft(f) ==
    LET requests == IF f.cands = <<>> THEN 1 ELSE Len(f.cands) - Len(f.fetched)
    IN CASE f.st = "inflight" -> 2 * requests
         [] f.st = "aborting" -> 2 * requests - 1
         [] OTHER -> 0

LinkStepsLeft ==
    2 * Len(ls.queue)
    + 2 * Cardinality({w \in DOMAIN ls.workers : ls.workers[w].st = "probing"})
    + Cardinality({w \in DOMAIN ls.workers : ls.workers[w].st = "aborting"})
    + (IF ls.phase = "running" THEN 1 ELSE 0)

\* the timer, the passing of time and the caller's signal act at most once each
SignalStepsLeft ==
    (IF run.timer = "armed" THEN 1 ELSE 0)
    + (IF run.timer = "armed" /\ now < run.deadlineAt THEN 1 ELSE 0)
    + (IF ext.given /\ ~ext.aborted THEN 1 ELSE 0)

\* the steps of one secondary fan-out: the geo lookup, three sitemap
\* candidates, the link probes and the end of evaluateLinkSample
SecondarySteps == 2 + 2 * 3 + 2 * LINK_SAMPLE_LIMIT + 1

StepsLeft ==
    (CASE run.pc = "primary" -> 2 * (SecondarySteps + 1)
       [] run.pc = "secondary" -> SecondarySteps + 1
       [] OTHER -> 0)
    + FetchStepsLeft(fetches["psi"]) + FetchStepsLeft(fetches["html"])
    + FetchStepsLeft(fetches["robots"]) + FetchStepsLeft(fetches["sitemap"])
    + FetchStepsLeft(fetches["geo"])
    + LinkStepsLeft + SignalStepsLeft

\* C13: fetchRobotsTxt, fetchSitemaps, lookupGeo and evaluateLinkSample never
\* reject, whatever their requests do (network error, status >= 400, abort),
\* and a run whose PageSpeed and HTML fetches resolved always reaches the
\* scoring phase: until it does, the run can always take a step, every step
\* leaves it before scoring or enters scoring (never the catch block), and
\* every step brings it closer (StepsLeft decreases).
C13_DegradedSourcesNeverFailRun ==
    /\ [](DegradedSourcesResolve /\ (BeforeScoring => CanStep))
    /\ [][BeforeScoring =>
            \/ run'.pc = "scoring" /\ run'.mod = 1
            \/ BeforeScoring' /\ StepsLeft' < StepsLeft]_vars

C13_Witness ==
    /\ run.pc = "scoring"
    /\ fetches["robots"].val.text.isNull
    /\ \E i \in DOMAIN fetches["sitemap"].val.fetched : ~fetches["sitemap"].val.fetched[i].ok
    /\ fetches["geo"].val.isNull
    /\ \E i \in DOMAIN ls.results : ~ls.results[i].ok

(***************************************************************************)
(* The order of the phases of a run                                        *)
(***************************************************************************)
SecondaryStarted ==
    fetches["sitemap"].st # "idle" \/ fetches["geo"].st # "idle" \/ ls.phase # "idle"

PrimaryCompleted == \A f \in PrimaryFetchers : fetches[f].st = "resolved"

\* sitemap, geo and the link sample summary are there to be put in the context
ContextAssembled ==
    /\ fetches["sitemap"].st = "resolved"
    /\ fetches["geo"].st = "resolved"
    /\ ls.phase = "done"

\* calculateWeightedScore has run: the run is saving, loading the history or done
Aggregated == run.pc \in {"saving", "history", "resolved"}

\* C14: the phases of a run are totally ordered: a sitemap fetch, a geo lookup
\* or a link probe has started only if all three primary fetches completed;
\* a module computation has started only if sitemap, geo and link sample are
\* all resolved; the weighted aggregation has run only if all eight module
\* computations completed.
C14_PhasesAreOrdered ==
    /\ SecondaryStarted => PrimaryCompleted /\ run.pc \notin {"idle", "primary"}
    /\ run.mod >= 1 => ContextAssembled /\ PrimaryCompleted
    /\ run.pc = "scoring" => run.mod \in 1..Len(MODULE_KEYS)
    /\ Aggregated => run.mod = Len(MODULE_KEYS) /\ ContextAssembled

C14_Witness ==
    /\ run.pc = "resolved" /\ run.mod = Len(MODULE_KEYS)
    /\ Len(fetches["sitemap"].fetched) >= 2
    /\ ~fetches["geo"].val.isNull
    /\ Len(ls.results) >= 1

(***************************************************************************)
(* lookupGeo                                                               *)
(***************************************************************************)
\* C17: lookupGeo never rejects and returns absent on every failure of the
\* lookup, a provider response whose status is not "success" included, and
\* the geo cache never holds a response whose status is not "success".
C17_GeoFailureIsAbsent ==
    /\ fetches["geo"].st # "rejected"
    /\ fetches["geo"].st = "resolved" =>
            fetches["geo"].val.isNull \/ fetches["geo"].val.status = "success"
    /\ caches["geo"][RunKey].present => caches["geo"][RunKey].value.status = "success"

(***************************************************************************)
(* fetchSitemaps                                                           *)
(***************************************************************************)
\* the outcomes recorded are those of the first candidates, in order, and only
\* the last of them may be a success
OutcomesOf(urls, fetched) ==
    /\ Len(fetched) <= Len(urls)
    /\ \A i \in DOMAIN fetched : fetched[i].url = urls[i]
    /\ \A i \in DOMAIN fetched : fetched[i].ok => i = Len(fetched)

\* C18: fetchSitemaps requests at most 3 candidates, in candidate order, and
\* stops at the first success: while it runs, the candidate requested is the
\* one after the outcomes recorded and none of those is a success; the summary
\* it returns has 1 to 3 outcomes, which are those of a prefix of the
\* candidate list, and only the last outcome may have ok = true.
C18_SitemapsStopAtFirstSuccess ==
    LET f == fetches["sitemap"] IN
    /\ Len(f.cands) <= 3
    /\ OutcomesOf(f.cands, f.fetched)
    /\ f.st \in {"inflight", "aborting"} =>
            /\ Len(f.fetched) < Len(f.cands)
            /\ \A i \in DOMAIN f.fetched : ~f.fetched[i].ok
    /\ f.st = "resolved" =>
            /\ Len(f.val.fetched) \in 1..3
            /\ OutcomesOf(f.val.urls, f.val.fetched)
            /\ f.cands # <<>> => f.val.fetched = f.fetched /\ f.val.urls = f.cands

C18_Witness ==
    LET f == fetches["sitemap"] IN
    /\ f.st = "resolved"
    /\ Len(f.cands) = 3
    /\ Len(f.val.fetched) = 2
    /\ ~f.val.fetched[1].ok /\ f.val.fetched[2].ok

\* robots.txt names four sitemaps and none can be fetched: three are tried
C18_WitnessAllFail ==
    LET f == fetches["sitemap"] IN
    /\ f.st = "resolved"
    /\ Len(f.val.fetched) = 3
    /\ \A i \in 1..3 : ~f.val.fetched[i].ok

(***************************************************************************)
(* Retries                                                                 *)
(***************************************************************************)
\* C19: no fetch is retried: a request sends at most one attempt, and a
\* request whose first attempt failed rejects.
C19_NoRetryOfFailedFetch ==
    /\ client.sent <= 1
    /\ client.failures # <<>> => client.st = "rejected"

(***************************************************************************)
(* State shared by concurrent runs                                         *)
(***************************************************************************)
\* C20: concurrent runs share no mutable state but the caches: the record a
\* run has saved is never lost or overwritten by another run, and the
\* history a run reads holds no record written by another run of the same
\* interleaving.
C20_RunsShareOnlyCache ==
    \A r \in Runs :
        /\ savers[r].pc \in {"history", "done"} =>
                \E i \in DOMAIN disk : disk[i].id = r
        /\ \A i \in DOMAIN savers[r].history : savers[r].history[i].id \in {0, r}

(***************************************************************************)
(* SimHash similarity                                                      *)
(***************************************************************************)
\* the number of bit positions in which two fingerprints differ
Differing(a, b) == Cardinality(Xor(a, b))

\* C21: for 64-bit fingerprints a and b, simHashSimilarity(a, b) equals
\* simHashSimilarity(b, a), simHashSimilarity(a, a) is 1, and the similarity
\* is 1 - d/64 for the Hamming distance d of a and b: it is 1 exactly when
\* d = 0 and it lies in [0, 1].
C21_SimilarityIsSymmetricDistance ==
    hashes.st = "compared" =>
        LET d == Differing(hashes.a, hashes.b) IN
        /\ FEq(hashes.ab, hashes.ba)
        /\ FEq(hashes.aa, FromInt(1))
        /\ FEq(FMul(hashes.ab, FromInt(HASH_BITS)), FromInt(HASH_BITS - d))
        /\ FEq(hashes.ab, FromInt(1)) <=> d = 0
        /\ FCmp(hashes.ab, FromInt(0)) >= 0 /\ FCmp(hashes.ab, FromInt(1)) <= 0

C21_Witness ==
    /\ hashes.st = "compared"
    /\ hashes.a = AllBits /\ hashes.b = {0, HASH_BITS - 1}
    /\ FEq(FMul(hashes.ab, FromInt(HASH_BITS)), FromInt(2))

(***************************************************************************)
(* Isolation of detector failures                                          *)
(***************************************************************************)
\* C22: runTechnicalDetectors isolates the failure of a detector: whichever
\* detectors throw, the loop never rejects, the results are one per detector
\* executed, in detector order; a detector that threw contributes an
\* "internal_error" result whose only issue is one critical issue with the
\* message of the error, and the list returned has a result for each of the
\* detectors (those after a throwing one included).
C22_DetectorFailuresAreIsolated ==
    LET r == detectorRun IN
    /\ r.st = "rejected" => r.executed = <<>>
    /\ Len(r.results) = Len(r.executed)
    /\ r.st = "running" => Len(r.results) < Len(detectors)
    /\ r.st = "done" => Len(r.results) = Len(detectors)
    /\ \A i \in DOMAIN r.results :
          /\ r.executed[i].name = detectors[i]
          /\ IF r.executed[i].threw
             THEN r.results[i] = [module |-> "internal_error", detector |-> detectors[i],
                                  critical |-> <<r.executed[i].message>>,
                                  warnings |-> <<>>, improvements |-> <<>>]
             ELSE r.results[i].module = detectors[i]

C22_Witness ==
    /\ detectorRun.st = "done"
    /\ detectorRun.executed[1].threw
    /\ ~detectorRun.executed[2].threw
    /\ detectorRun.executed[Len(detectors)].threw
    /\ detectorRun.results[Len(detectors)].critical = <<"bad status">>

(***************************************************************************)
(* The duplicate-content check                                             *)
(***************************************************************************)
\* the positions (in the document) of the first 40 blocks of 120 characters
\* or more
Considered(blocks) ==
    {i \in DOMAIN blocks :
        /\ blocks[i].len >= 120
        /\ Cardinality({j \in 1..i : blocks[j].len >= 120}) <= 40}

\* the index of a considered block in the list of fingerprints
ChunkIndex(blocks, i) == Cardinality({j \in 1..i : blocks[j].len >= 120}) - 1

\* the pairs of considered blocks at most 5 bits apart (1 - 5/64 >= 0.92 and
\* 1 - 6/64 < 0.92)
SimilarPairs(blocks) ==
    {<<ChunkIndex(blocks, i), ChunkIndex(blocks, j)>> :
        <<i, j>> \in {p \in Considered(blocks) \X Considered(blocks) :
                        /\ p[1] < p[2]
                        /\ Differing(blocks[p[1]].hash, blocks[p[2]].hash) <= 5}}

\* C23: the duplicate-content check considers the first 40 qualifying text
\* blocks at most, compares every unordered pair of them once and flags a
\* pair iff its similarity is >= 0.92; with k flagged pairs it emits one
\* warning when k >= 3, one improvement when k is 1 or 2 and no issue when
\* k = 0.
C23_DuplicatePairsAndSeverity ==
    dupCheck.st = "done" =>
        LET similar == SimilarPairs(dupCheck.blocks)
            k == Len(dupCheck.duplicates)
        IN /\ dupCheck.fingerprintCount = Cardinality(Considered(dupCheck.blocks))
           /\ dupCheck.fingerprintCount <= 40
           /\ {<<dupCheck.duplicates[i].a, dupCheck.duplicates[i].b>> : i \in 1..k} = similar
           /\ k = Cardinality(similar)
           /\ dupCheck.warnings = (IF k >= 3 THEN 1 ELSE 0)
           /\ dupCheck.improvements = (IF k \in 1..2 THEN 1 ELSE 0)

\* 41 blocks, the first three and the last verbatim copies of one text: 3
\* flagged pairs and a warning
C23_Witness ==
    /\ dupCheck.st = "done"
    /\ Len(dupCheck.blocks) = 41
    /\ dupCheck.blocks[41].hash = RepeatedHash
    /\ dupCheck.duplicates = <<[a |-> 0, b |-> 1], [a |-> 0, b |-> 2], [a |-> 1, b |-> 2]>>
    /\ dupCheck.warnings = 1 /\ dupCheck.improvements = 0

(***************************************************************************)
(* SEO Basics                                                              *)
(***************************************************************************)
\* the robots meta tag or the X-Robots-Tag header carries noindex or none
HasNoindexDirective(c) ==
    \E i \in DOMAIN (c.robotsMeta \o c.xRobotsTag) :
        ToLowerCase(Trim((c.robotsMeta \o c.xRobotsTag)[i])) \in {"noindex", "none"}

\* the number of satisfied checks among the five of SEO Basics
SatisfiedChecks(c) ==
    Count(<<c.titleLength >= 30 /\ c.titleLength <= 60,
            c.metaDescriptionLength >= 70 /\ c.metaDescriptionLength <= 160,
            c.canonicals = 1,
            ~HasNoindexDirective(c),
            SitemapReachable(c)>>)

\* C24: the SEO Basics score is 2 times the number of satisfied checks (title
\* of 30..60 characters, meta description of 70..160, exactly one canonical,
\* no noindex/none directive in the robots meta tag or the X-Robots-Tag
\* header, a sitemap candidate fetched successfully) and every unsatisfied
\* check adds exactly one recommendation.
C24_SeoBasicsCountsSatisfiedChecks ==
    \A i \in DOMAIN modules :
        modules[i].key = "seo_basics" =>
            /\ FEq(modules[i].score, FromInt(2 * SatisfiedChecks(ctx)))
            /\ computeSeoBasicsRecommendations(ctx) = 5 - SatisfiedChecks(ctx)

\* the same statement on the pages whose directives carry no white space
C24_WithoutPaddedDirectives ==
    \A i \in DOMAIN modules :
        /\ modules[i].key = "seo_basics"
        /\ \A j \in DOMAIN ctx.robotsMeta : Trim(ctx.robotsMeta[j]) = ctx.robotsMeta[j]
        => /\ FEq(modules[i].score, FromInt(2 * SatisfiedChecks(ctx)))
           /\ computeSeoBasicsRecommendations(ctx) = 5 - SatisfiedChecks(ctx)

\* a 14-character title, no description, no canonical, no noindex and a
\* reachable sitemap: score 4 and 3 recommendations
C24_Scenario ==
    /\ Len(modules) >= 4 /\ modules[4].key = "seo_basics"
    /\ ctx.titleLength = 14 /\ ctx.metaDescriptionLength = 0 /\ ctx.canonicals = 0
    /\ ~HasNoindexDirective(ctx) /\ SitemapReachable(ctx)
    /\ FEq(modules[4].score, FromInt(4))
    /\ computeSeoBasicsRecommendations(ctx) = 3

(***************************************************************************)
(* The precision of module scores                                          *)
(***************************************************************************)
\* a number that equals itself rounded to two decimals
HasTwoDecimals(x) == x.kind # "nan" /\ FEq(FromHundredths(ToFixed2(x)), x)

\* C25: every ModuleResult.score handed to consumers has two-decimal
\* precision, the Social score with one or two of the three Open Graph fields
\* and the Links score for every broken-link and nofollow ratio included.
C25_ModuleScoresHaveTwoDecimals ==
    \A i \in DOMAIN modules : HasTwoDecimals(modules[i].score)

\* what the score of a module with a fractional score is
C25_SocialThirds ==
    \A i \in DOMAIN modules :
        /\ modules[i].key = "social"
        /\ ctx.ogTitle /\ ~ctx.ogDescription /\ ~ctx.ogImage /\ ~ctx.twitterCard
        => /\ FEq(modules[i].score, FMul(FDiv(FromInt(1), FromInt(3)), FromInt(7)))
           /\ ToFixed2(modules[i].score) = 233
           /\ ~HasTwoDecimals(modules[i].score)

(***************************************************************************)
(* Sitemap candidates (checked under SpecCandidates)                       *)
(***************************************************************************)
\* the absolute URLs the Sitemap: lines of a text name, in order of first
\* appearance
RECURSIVE DirectiveUrls(_, _, _)
DirectiveUrls(lines, i, urls) ==
    IF i > Len(lines) THEN urls
    ELSE LET named == {u \in AbsoluteSitemaps : lines[i] = AbsoluteSitemapLine(u)}
         IN DirectiveUrls(lines, i + 1,
                          IF named = {} \/ named \subseteq SeqRange(urls) THEN urls
                          ELSE Append(urls, CHOOSE u \in named : TRUE))

\* the text has a Sitemap: line that names something
HasSitemapDirective(text) ==
    /\ ~text.isNull
    /\ \E i \in DOMAIN text.lines :
          IsSitemapLine(text.lines[i]) /\ Trim(text.lines[i][2]) # ""

\* C26: every absolute http(s) URL U of a line "Sitemap: U" of robots.txt is
\* itself among the candidates (the first three, in order), and the fallback
\* <origin>/sitemap.xml is a candidate iff robots.txt is absent or has no
\* Sitemap: directive.
C26_AbsoluteSitemapsAreCandidates ==
    robotsInput.st = "collected" =>
        LET text == robotsInput.text
            onlyAbsolute ==
                \A i \in DOMAIN text.lines :
                    IsSitemapLine(text.lines[i]) =>
                        \E u \in AbsoluteSitemaps : text.lines[i] = AbsoluteSitemapLine(u)
            urls == DirectiveUrls(text.lines, 1, <<>>)
        IN /\ onlyAbsolute /\ urls # <<>> =>
                 robotsInput.candidates = SubSeq(urls, 1, Min(3, Len(urls)))
           /\ ~HasSitemapDirective(text) =>
                 robotsInput.candidates = <<SitemapUrl("/sitemap.xml", SiteOrigin)>>
           /\ HasSitemapDirective(text) /\ urls = <<>> =>
                 SitemapUrl("/sitemap.xml", SiteOrigin) \notin SeqRange(robotsInput.candidates)

\* what the candidates of absolute URLs are: the path /https or /http on the
\* analysed origin
C26_AbsoluteUrlsLoseTheirAddress ==
    robotsInput.st = "collected" =>
        \A i \in DOMAIN robotsInput.text.lines :
            (\E u \in AbsoluteSitemaps : robotsInput.text.lines[i] = AbsoluteSitemapLine(u)) =>
                \E c \in SeqRange(robotsInput.candidates) :
                    /\ c.ref \in {"/https", "/http"}
                    /\ c.host = SiteOrigin.host

(***************************************************************************)
(* The deadline timer (checked under SpecRun)                              *)
(***************************************************************************)
\* C27: on every exit path of analyzeSite after the cancellation scope is
\* created the deadline timer is cleared before the run settles, so the
\* deadline never fires after the run has settled; a run that fails the
\* validation of its input never armed a timer.
C27_TimerClearedBeforeSettle ==
    /\ [](RunSettled =>
            /\ run.timer # "armed"
            /\ (run.outcome = "url is required") <=> (run.timer = "unarmed"))
    /\ [][RunSettled => run'.timer = run.timer]_vars

\* a fetch failed before the deadline and without any cancellation: the run
\* rejected and its timer is cleared with the deadline still ahead
C27_Witness ==
    /\ run.pc = "rejected"
    /\ run.timer = "cleared"
    /\ ~run.abortedAtSettle
    /\ now < run.deadlineAt

(***************************************************************************)
(* skipCache (checked under SpecRun)                                       *)
(***************************************************************************)
\* a step leaves every entry of every cache as it was
CachesUnchanged ==
    \A f \in Fetchers : \A k \in Keys : SameEntry(caches[f][k], caches'[f][k])

\* C28: with skipCache = true every fetcher neither reads nor writes its
\* cache: a call always issues its request, whatever the cache holds, and
\* every step of the run, a success, a degraded result or a failure, leaves
\* the contents of the caches as they were.
C28_SkipCacheBypassesCaches ==
    [][run'.skipCache =>
          /\ CachesUnchanged
          /\ \A f \in Fetchers :
                fetches[f].st = "idle" /\ fetches'[f].st # "idle" =>
                    fetches'[f].st \in {"inflight", "aborting"}]_vars

\* a run with skipCache resolved on warm caches: it requested from all five
\* sources, the geolocation lookup degraded, and the caches still hold the
\* entries of the earlier run
C28_Witness ==
    /\ run.pc = "resolved"
    /\ run.skipCache
    /\ \A f \in Fetchers : SameEntry(caches[f][RunKey], WarmStore(f)[RunKey])
    /\ \A f \in Fetchers : fetches[f].st = "resolved"
    /\ fetches["geo"].val.isNull

(***************************************************************************)
(* The workers of the link sample (checked under SpecLinks)                *)
(***************************************************************************)
\* the places a candidate URL is at: the queue, the probe of a worker, the
\* checked entries
Holders(url) ==
    Cardinality({i \in DOMAIN ls.queue : ls.queue[i].url = url})
    + Cardinality({w \in DOMAIN ls.workers :
                     ls.workers[w].st \in {"probing", "aborting"} /\ ls.workers[w].next.url = url})
    + Cardinality({j \in DOMAIN ls.results : ls.results[j].url = url})

\* C29: in every interleaving of the workers each retained candidate is
\* pulled off the queue by exactly one worker and probed exactly once: when
\* the sampling finishes the URLs of the checked entries are a permutation of
\* the candidate URLs, the broken list is the checked entries with ok = false
\* and an entry is ok iff a status code was obtained and it is < 400.
C29_EachCandidateProbedOnce ==
    /\ \A i \in DOMAIN ls.candidates : Holders(ls.candidates[i].url) = 1
    /\ \A j \in DOMAIN ls.results :
          /\ \E i \in DOMAIN ls.candidates : ls.candidates[i].url = ls.results[j].url
          /\ ls.results[j].ok <=>
                (ls.results[j].statusCode # NoStatus /\ ls.results[j].statusCode < 400)
    /\ ls.phase = "done" =>
          LET summary == LinkSampleSummary(ls)
          IN /\ Len(summary.checked) = Len(ls.candidates)
             /\ \A i \in DOMAIN ls.candidates :
                   Cardinality({j \in DOMAIN summary.checked :
                                  summary.checked[j].url = ls.candidates[i].url}) = 1
             /\ \A j \in DOMAIN summary.checked :
                   ~summary.checked[j].ok <=>
                      \E b \in DOMAIN summary.broken : summary.broken[b] = summary.checked[j]
             /\ \A b \in DOMAIN summary.broken : ~summary.broken[b].ok

\* three candidates and two workers: the probe of the second candidate ended
\* first, one entry is broken by its status and one has no status
C29_Witness ==
    /\ ls.phase = "done"
    /\ Len(ls.candidates) = LINK_SAMPLE_LIMIT
    /\ Len(ls.workers) = LINK_CONCURRENCY
    /\ ls.results[1].url = ls.candidates[2].url
    /\ \E j \in DOMAIN ls.results : ls.results[j].ok /\ ls.results[j].statusCode = 399
    /\ \E j \in DOMAIN ls.results : ls.results[j].statusCode = 400
    /\ \E j \in DOMAIN ls.results : ls.results[j].statusCode = NoStatus
    /\ Len(LinkSampleSummary(ls).broken) = 2

(***************************************************************************)
(* Requests that outlive the run (checked under SpecRun)                   *)
(***************************************************************************)
\* a request of the run is on the network
RequestInFlight ==
    \/ \E f \in Fetchers : fetches[f].st = "inflight"
    \/ \E w \in DOMAIN ls.workers : ls.workers[w].st = "probing"

\* C30: once analyzeSite has settled, for whatever reason, no request the run
\* started is still in flight and no request of the run writes to a cache
\* afterwards.
C30_NoRequestOutlivesRun ==
    /\ [](RunSettled => ~RequestInFlight)
    /\ [][RunSettled => CachesUnchanged]_vars

=============================================================================
